---- MODULE Spec2Model ----
(***************************************************************************)
(* A model of ARCON.js, an RCON client for BattlEye servers over UDP.      *)
(*                                                                         *)
(* The wire codec (src/src/Arcon/packet.ts) is modelled on byte sequences, *)
(* with the CRC-32 computed as the library computes it.  The session       *)
(* (BaseClient, src/unnamed/part_009 lines 1-286) and the command          *)
(* scheduler and roster engine (Arcon, src/src/Arcon/index.ts lines        *)
(* 189-739) are modelled as one state machine: every handler is an         *)
(* operator from the state before to the state after, calls included, and  *)
(* every entry of the event loop (a user call, a socket event, a timer     *)
(* callback) is one action.                                                *)
(***************************************************************************)
EXTENDS Integers, Sequences, FiniteSets, TLC

(***************************************************************************)
(* Bytes and 32-bit words.  TLC's integers are 32-bit signed, so a CRC is  *)
(* kept as a pair <<high 16 bits, low 16 bits>>.                           *)
(***************************************************************************)
RECURSIVE Xor(_, _)
Xor(a, b) ==
  IF a = 0 THEN b
  ELSE IF b = 0 THEN a
  ELSE ((a + b) % 2) + 2 * Xor(a \div 2, b \div 2)

Xor32(x, y) == <<Xor(x[1], y[1]), Xor(x[2], y[2])>>

ShiftRight1(x) == <<x[1] \div 2, (x[1] % 2) * 32768 + (x[2] \div 2)>>

ShiftRight8(x) == <<x[1] \div 256, (x[1] % 256) * 256 + (x[2] \div 256)>>

\* The reflected IEEE polynomial 0xEDB88320.
CrcPoly == <<60856, 33568>>

RECURSIVE CrcStep(_, _)
CrcStep(c, k) ==
  IF k = 0 THEN c
  ELSE CrcStep(IF c[2] % 2 = 1 THEN Xor32(CrcPoly, ShiftRight1(c))
               ELSE ShiftRight1(c), k - 1)

CrcTable == [n \in 0..255 |-> CrcStep(<<0, n>>, 8)]

RECURSIVE CrcUpdate(_, _, _)
CrcUpdate(c, buf, i) ==
  IF i > Len(buf) THEN c
  ELSE CrcUpdate(Xor32(CrcTable[Xor(c[2] % 256, buf[i])], ShiftRight8(c)),
                 buf, i + 1)

\* crc32(buf) of buffer-crc32: the checksum as four bytes, most significant
\* first.
crc32(buf) ==
  LET c == Xor32(CrcUpdate(<<65535, 65535>>, buf, 1), <<65535, 65535>>)
  IN  <<c[1] \div 256, c[1] % 256, c[2] \div 256, c[2] % 256>>

\* Buffer.reverse()
reverse(buf) == [i \in 1..Len(buf) |-> buf[Len(buf) + 1 - i]]

\* Buffer.toString(): the UTF-8 decoding of the bytes, as a sequence of code
\* points.  A byte that cannot continue or start a sequence decodes to
\* U+FFFD, one for each maximal ill-formed part, and is looked at again as
\* the start of a sequence when it broke one off.  needed is the number of
\* continuation bytes still due, lower..upper the range allowed for the next.
RECURSIVE Utf8Decode(_, _, _, _, _, _)
Utf8Decode(buf, i, cp, needed, lower, upper) ==
  IF i > Len(buf) THEN (IF needed # 0 THEN <<65533>> ELSE <<>>)
  ELSE LET b == buf[i]
       IN  IF needed = 0
           THEN IF b < 128 THEN <<b>> \o Utf8Decode(buf, i + 1, 0, 0, 128, 191)
                ELSE IF b \in 194..223
                THEN Utf8Decode(buf, i + 1, b - 192, 1, 128, 191)
                ELSE IF b \in 224..239
                THEN Utf8Decode(buf, i + 1, b - 224, 2,
                                IF b = 224 THEN 160 ELSE 128,
                                IF b = 237 THEN 159 ELSE 191)
                ELSE IF b \in 240..244
                THEN Utf8Decode(buf, i + 1, b - 240, 3,
                                IF b = 240 THEN 144 ELSE 128,
                                IF b = 244 THEN 143 ELSE 191)
                ELSE <<65533>> \o Utf8Decode(buf, i + 1, 0, 0, 128, 191)
           ELSE IF b < lower \/ b > upper
           THEN <<65533>> \o Utf8Decode(buf, i, 0, 0, 128, 191)
           ELSE IF needed = 1
           THEN <<cp * 64 + (b - 128)>> \o Utf8Decode(buf, i + 1, 0, 0, 128, 191)
           ELSE Utf8Decode(buf, i + 1, cp * 64 + (b - 128), needed - 1, 128, 191)

toString(buf) == Utf8Decode(buf, 1, 0, 0, 128, 191)

\* buf.subarray(from) with a 0-based offset
subarray(buf, from) == SubSeq(buf, from + 1, Len(buf))

PacketTypes == [Login |-> 0, Command |-> 1, Message |-> 2]

\* createPacket (packet.ts 148-178) on a datagram of bytes.
createPacket(msg) ==
  IF Len(msg) < 8 THEN [t |-> "PacketError", error |-> "Packet too short"]
  ELSE IF toString(SubSeq(msg, 1, 2)) # <<66, 69>>
  THEN [t |-> "PacketError", error |-> "Invalid packet prefix"]
  ELSE IF toString(SubSeq(msg, 3, 6)) # toString(reverse(crc32(subarray(msg, 6))))
  THEN [t |-> "PacketError", error |-> "Invalid checksum"]
  ELSE LET type == msg[8]
           data == subarray(msg, 8)
       IN  IF type = PacketTypes.Login
           THEN [t |-> "LoginPacket", data |-> data]
           ELSE LET sequence      == IF Len(data) > 0 THEN data[1] ELSE -1
                    packetData    == subarray(data, 1)
                    dataHasHeader == Len(packetData) > 0 /\ packetData[1] = 0
                IN  IF type = PacketTypes.Message \/ ~dataHasHeader
                    THEN [t |-> "Packet", type |-> type, sequence |-> sequence,
                          data |-> packetData]
                    ELSE [t |-> "CommandPacketPart", sequence |-> sequence,
                          totalPackets |-> IF Len(packetData) > 1 THEN packetData[2] ELSE -1,
                          packetIndex  |-> IF Len(packetData) > 2 THEN packetData[3] ELSE -1,
                          data |-> subarray(packetData, 3)]

\* A frame as the server builds it: 'B' 'E', the checksum least significant
\* byte first, then 0xFF, the type and the body.
ServerFrame(type, body) ==
  LET tail == <<255, type>> \o body
  IN  <<66, 69>> \o reverse(crc32(tail)) \o tail

(***************************************************************************)
(* Values.  An optional value (x | null | undefined) is a sequence of at    *)
(* most one element.  A Date is kept as its age, Date.now() - date, which  *)
(* is all the code reads of it; ages stop growing at AgeCap, beyond every  *)
(* threshold they are compared with.                                       *)
(***************************************************************************)
None == <<>>

Some(v) == <<v>>

IsSome(o) == Len(o) > 0

Min(a, b) == IF a < b THEN a ELSE b

Max(a, b) == IF a > b THEN a ELSE b

\* Timer periods and thresholds of the program, in milliseconds.
LoginTimeoutMs == 5000

HeartbeatPeriodMs == 1000

ResponseTimeoutMs == 15000

HeartbeatIdleMs == 20000

CommandQueuePeriodMs == 500

CommandResendMs == 5000

DefaultPlayerUpdateRate == 5000

SequenceModulus == 256

\* The resolution of the model's clock: the shortest timer period.
Quantum == CommandQueuePeriodMs

AgeCap == ResponseTimeoutMs + HeartbeatIdleMs + 2 * CommandResendMs

\* Bounds of the model.
MaxTicks == 3

MaxQueue == 2

MaxTimers == 6

MaxCmdSeq == 1

MaxMsgSeq == 2

MaxPlayers == 1

(***************************************************************************)
(* Text payloads.  A payload is a sequence of chunks; an empty Buffer is   *)
(* the empty sequence.  A chunk stands for a piece of text by what the     *)
(* program's regular expressions make of it: the header line of a roster   *)
(* dump, one row of it with its captured groups, a server message with the *)
(* expression that matches it and its groups, or plain text.               *)
(***************************************************************************)
Text(v) == <<[k |-> "text", v |-> v]>>

VARIABLES
  \* BaseClient (src/unnamed/part_009)
  autoReconnect, sequence, lastCommandPacketSentAt, lastCommandPacketReceivedAt,
  socket, state, timeouts,
  \* Arcon (src/src/Arcon/index.ts)
  ready, players, connectingPlayers, playerUpdateRate, playerUpdateInterval,
  lastCommandSentAt, commandQueueInterval, commandQueue, packetParts,
  waitingForCommandResponse, seenSequences,
  \* the runtime: live timers (id -> kind, period, time left) and the clock
  timers, ticks,
  \* the environment: whether the server has gone silent
  silent,
  \* what the last step did: the entry point, its return value, the frames it
  \* handed to the socket and the events it emitted
  last, ret, out, ev,
  \* history: the sequence number of the command in flight, the players a join
  \* event was emitted for in this session, whether the session was closed
  \* with abortReconnect, the frame that first carried the command at the
  \* head of the queue
  inFlightSeq, joined, aborted, firstSent,
  \* the earlier scheduler (src/unnamed/part_011 over src/src/Arcon/client.ts)
  legacy

vars == << autoReconnect, sequence, lastCommandPacketSentAt,
           lastCommandPacketReceivedAt, socket, state, timeouts, ready, players,
           connectingPlayers, playerUpdateRate, playerUpdateInterval,
           lastCommandSentAt, commandQueueInterval, commandQueue, packetParts,
           waitingForCommandResponse, seenSequences, timers, ticks, silent,
           last, ret, out, ev, inFlightSeq, joined, aborted, firstSent, legacy >>

\* The state as one record, for the handlers to transform.
Cur ==
  [ autoReconnect |-> autoReconnect, sequence |-> sequence,
    lastCommandPacketSentAt |-> lastCommandPacketSentAt,
    lastCommandPacketReceivedAt |-> lastCommandPacketReceivedAt,
    socket |-> socket, state |-> state, timeouts |-> timeouts,
    ready |-> ready, players |-> players,
    connectingPlayers |-> connectingPlayers,
    playerUpdateRate |-> playerUpdateRate,
    playerUpdateInterval |-> playerUpdateInterval,
    lastCommandSentAt |-> lastCommandSentAt,
    commandQueueInterval |-> commandQueueInterval,
    commandQueue |-> commandQueue, packetParts |-> packetParts,
    waitingForCommandResponse |-> waitingForCommandResponse,
    seenSequences |-> seenSequences, timers |-> timers,
    ret |-> ret, out |-> out, ev |-> ev,
    inFlightSeq |-> inFlightSeq, joined |-> joined, aborted |-> aborted,
    firstSent |-> firstSent ]

\* An entry point starts with nothing sent, nothing emitted, nothing returned.
Begin == [Cur EXCEPT !.out = <<>>, !.ev = <<>>, !.ret = None]

Becomes(s) ==
  /\ autoReconnect' = s.autoReconnect
  /\ sequence' = s.sequence
  /\ lastCommandPacketSentAt' = s.lastCommandPacketSentAt
  /\ lastCommandPacketReceivedAt' = s.lastCommandPacketReceivedAt
  /\ socket' = s.socket
  /\ state' = s.state
  /\ timeouts' = s.timeouts
  /\ ready' = s.ready
  /\ players' = s.players
  /\ connectingPlayers' = s.connectingPlayers
  /\ playerUpdateRate' = s.playerUpdateRate
  /\ playerUpdateInterval' = s.playerUpdateInterval
  /\ lastCommandSentAt' = s.lastCommandSentAt
  /\ commandQueueInterval' = s.commandQueueInterval
  /\ commandQueue' = s.commandQueue
  /\ packetParts' = s.packetParts
  /\ waitingForCommandResponse' = s.waitingForCommandResponse
  /\ seenSequences' = s.seenSequences
  /\ timers' = s.timers
  /\ ret' = s.ret
  /\ out' = s.out
  /\ ev' = s.ev
  /\ inFlightSeq' = s.inFlightSeq
  /\ joined' = s.joined
  /\ aborted' = s.aborted
  /\ firstSent' = s.firstSent

(***************************************************************************)
(* The runtime's timers (setTimeout, setInterval, clearTimeout,            *)
(* clearInterval).  A handle is a timer id; a cleared or fired timer's id  *)
(* is not given out again while some field still holds it.                 *)
(***************************************************************************)
HeldTimers(s) ==
  {s.timeouts[k] : k \in DOMAIN s.timeouts}
    \cup {s.playerUpdateInterval[i] : i \in DOMAIN s.playerUpdateInterval}
    \cup {s.commandQueueInterval[i] : i \in DOMAIN s.commandQueueInterval}

NewTimer(s) ==
  CHOOSE n \in 1..(Cardinality(DOMAIN s.timers \cup HeldTimers(s)) + 1) :
    /\ n \notin DOMAIN s.timers \cup HeldTimers(s)
    /\ \A m \in 1..(n - 1) : m \in DOMAIN s.timers \cup HeldTimers(s)

\* setTimeout (repeat FALSE) or setInterval (repeat TRUE) of a callback
\* named by kind, as timer id.
setTimer(s, id, kind, ms, repeat) ==
  [s EXCEPT !.timers =
     [t \in DOMAIN s.timers \cup {id} |->
        IF t = id THEN [kind |-> kind, period |-> ms, left |-> ms, repeat |-> repeat]
        ELSE s.timers[t]]]

\* clearTimeout / clearInterval of an optional handle
clearTimer(s, handle) ==
  IF IsSome(handle)
  THEN [s EXCEPT !.timers = [t \in DOMAIN s.timers \ {handle[1]} |-> s.timers[t]]]
  ELSE s

\* this.emit(name, ...args), the listeners of the program aside
emit(s, name, args) == [s EXCEPT !.ev = Append(@, [name |-> name, args |-> args])]

(***************************************************************************)
(* The roster engine (Arcon, index.ts 385-641).  A message handler's       *)
(* "could not parse" branch is not modelled: the handler applies the very  *)
(* expression that selected it.                                            *)
(***************************************************************************)
\* new Player(guid, id, ip, name, ping, lobby, verified), player.ts 17-25
Player(guid, id, ip, name, ping, lobby, verified) ==
  [guid |-> guid, id |-> id, ip |-> ip, name |-> name, ping |-> ping,
   lobby |-> lobby, verified |-> verified]

\* map.set(key, value) and map.delete(key)
MapSet(map, key, value) ==
  [x \in DOMAIN map \cup {key} |-> IF x = key THEN value ELSE map[x]]

MapDelete(map, key) == [x \in DOMAIN map \ {key} |-> map[x]]

EmptyMap == [x \in {} |-> x]

\* this.emit('playerConnected', player), remembered in the history
emitPlayerConnected(s, player) ==
  [emit(s, "playerConnected", <<player>>) EXCEPT !.joined = @ \cup {player.id}]

playerConnected(s, m) ==
  [s EXCEPT !.connectingPlayers =
     MapSet(@, m.id, [id |-> m.id, ip |-> m.ip, name |-> m.name, guid |-> None])]

playerGuidCalculated(s, m) ==
  LET alreadyConnected == m.id \in DOMAIN s.players
  IN  IF alreadyConnected /\ s.players[m.id].guid = m.guid
      THEN [s EXCEPT !.connectingPlayers = MapDelete(@, m.id)]
      ELSE IF m.id \notin DOMAIN s.connectingPlayers THEN s
      ELSE [s EXCEPT !.connectingPlayers[m.id].guid = Some(m.guid)]

playerGuidVerified(s, m) ==
  LET connecting == m.id \in DOMAIN s.connectingPlayers
      existing   == m.id \in DOMAIN s.players
  IN  IF ~connecting /\ ~existing THEN s
      ELSE IF connecting
      THEN LET c == s.connectingPlayers[m.id]
               newPlayer == Player(m.guid, c.id, c.ip, c.name, 0, TRUE, TRUE)
           IN  emitPlayerConnected(
                 [s EXCEPT !.connectingPlayers = MapDelete(@, m.id),
                           !.players = MapSet(@, newPlayer.id, newPlayer)],
                 newPlayer)
      ELSE IF s.players[m.id].guid = m.guid /\ ~s.players[m.id].verified
      THEN emitPlayerConnected([s EXCEPT !.players[m.id].verified = TRUE],
                               [s.players[m.id] EXCEPT !.verified = TRUE])
      ELSE s

\* _playerDisconnected and _playerKicked differ in the reason they emit.
playerRemoved(s, m, what, reason) ==
  IF m.id \notin DOMAIN s.players
  THEN IF m.id \in DOMAIN s.connectingPlayers
       THEN [s EXCEPT !.connectingPlayers = MapDelete(@, m.id)]
       ELSE emit(s, "error", <<what, "Player not found">>)
  ELSE emit([s EXCEPT !.players = MapDelete(@, m.id)],
            "playerDisconnected", <<s.players[m.id], reason>>)

playerDisconnected(s, m) ==
  IF ~s.ready THEN s ELSE playerRemoved(s, m, "playerDisconnected", "disconnected")

playerKicked(s, m) == playerRemoved(s, m, "playerKicked", m.reason)

beLog(s, m) ==
  LET s1 == IF m.id \notin DOMAIN s.players
            THEN emit(s, "error", <<"beLog", "Player not found">>) ELSE s
  IN  emit(s1, "beLog", <<m.id, m.id \in DOMAIN s.players>>)

\* The message text starts with the name of player m.id and of no other.
playerMessage(s, m) ==
  IF m.id \in DOMAIN s.players
  THEN emit(s, "playerMessage", <<s.players[m.id]>>)
  ELSE IF m.id \in DOMAIN s.connectingPlayers /\ IsSome(s.connectingPlayers[m.id].guid)
  THEN LET c == s.connectingPlayers[m.id]
       IN  emit(s, "playerMessage", <<Player(c.guid[1], c.id, c.ip, c.name, 0, TRUE, FALSE)>>)
  ELSE emit(s, "error", <<"playerMessage", "No player found for message">>)

adminMessage(s, m) == emit(s, "adminMessage", <<m.id>>)

\* One row of a roster dump (the body of the loop of _playerList).
playerListRow(s, row) ==
  LET verified == row.verifiedStr = "OK"
      lobby    == row.lobbyStr = "Lobby"
      existing == row.id \in DOMAIN s.players
      connecting == row.id \in DOMAIN s.connectingPlayers
  IN  IF ~existing /\ verified
      THEN [s EXCEPT
              !.players = MapSet(@, row.id,
                 Player(row.guid, row.id, row.ip, row.name, row.ping, lobby, verified)),
              !.connectingPlayers = MapDelete(@, row.id)]
      ELSE IF row.guid = "-" /\ ~connecting
      THEN [s EXCEPT !.connectingPlayers =
              MapSet(@, row.id, [id |-> row.id, ip |-> row.ip, name |-> row.name,
                                 guid |-> Some(row.guid)])]
      ELSE IF existing
      THEN LET old == s.players[row.id]
               changes == <<old.ping # row.ping, old.lobby # lobby,
                            old.verified # verified>>
           IN  IF \E i \in 1..3 : changes[i]
               THEN LET new == [old EXCEPT !.ping = row.ping, !.lobby = lobby,
                                           !.verified = verified]
                    IN  emit([s EXCEPT !.players[row.id] = new],
                             "playerUpdated", <<new, changes>>)
               ELSE s
      ELSE s

RECURSIVE playerListRows(_, _, _)
playerListRows(s, data, i) ==
  IF i > Len(data) THEN s
  ELSE playerListRows(IF data[i].k = "row" THEN playerListRow(s, data[i]) ELSE s,
                      data, i + 1)

playerList(s, data) ==
  LET s1 == playerListRows(s, data, 1)
  IN  [emit(s1, "players", <<s1.players>>) EXCEPT !.ready = TRUE]

missions(s, data) == emit(s, "missions", <<>>)

\* data.startsWith(line), for the two header lines the program looks for
startsWith(data, line) == Len(data) > 0 /\ data[1].k = line

(***************************************************************************)
(* The session (BaseClient, part_009 1-286) and the command scheduler      *)
(* (Arcon, index.ts 189-336 and 718-738).  this.close(...) is Arcon's      *)
(* override wherever the code calls it.                                    *)
(***************************************************************************)
\* The window of recently seen server-message sequence numbers.  The two
\* methods Arcon calls on its base class are not in the sources; they are
\* modelled from section 4.5 of the specification.
SeenWindow == 256

hasSeenSequenceId(s, seq) == \E i \in 1..Len(s.seenSequences) : s.seenSequences[i] = seq

handleSequenceId(s, seq) ==
  LET all == Append(s.seenSequences, seq)
  IN  [s EXCEPT !.seenSequences =
         IF Len(all) > SeenWindow THEN SubSeq(all, Len(all) - SeenWindow + 1, Len(all))
         ELSE all]

forgetSequenceIds(s) == [s EXCEPT !.seenSequences = <<>>]

\* _send: the frame is handed to the socket if there is one.
send(s, packet) == IF s.socket # "null" THEN [s EXCEPT !.out = Append(@, packet)] ELSE s

\* Packet.create(type, data, sequence), as an outbound frame
PacketCreate(type, data, seq) ==
  [t |-> "Packet", type |-> type, sequence |-> seq, data |-> data]

\* _setup: a new datagram socket with its listeners
setup(s) == [s EXCEPT !.socket = "created"]

\* A connect() that does not look at the state
Base_connect_Unguarded(s) ==
  [setup([s EXCEPT !.state = "CONNECTING"]) EXCEPT
     !.ret = Some(TRUE), !.aborted = FALSE]

\* BaseClient.connect
Base_connect(s) ==
  IF s.state # "CLOSED" THEN [s EXCEPT !.ret = Some(FALSE)]
  ELSE [setup([s EXCEPT !.state = "CONNECTING"]) EXCEPT
          !.ret = Some(TRUE), !.aborted = FALSE]

\* _clearTimeout(key)
clearTimeout(s, key) ==
  IF key \in DOMAIN s.timeouts
  THEN [clearTimer(s, Some(s.timeouts[key])) EXCEPT !.timeouts = MapDelete(@, key)]
  ELSE s

\* A close that connects again whatever abortReconnect says
Base_close_AlwaysReconnect(s, reason, abortReconnect) ==
  LET abort == IF IsSome(abortReconnect) THEN abortReconnect[1] ELSE ~s.autoReconnect
      s1 == [s EXCEPT !.state = "CLOSING"]
  IN  IF s.state \in {"CLOSED", "CLOSING"} THEN [s1 EXCEPT !.ret = Some(FALSE)]
      ELSE LET s2 == [s1 EXCEPT !.socket = "null", !.sequence = 0,
                                !.lastCommandPacketSentAt = None,
                                !.lastCommandPacketReceivedAt = None]
               s3 == clearTimeout(clearTimeout(s2, "login"), "heartbeat")
               s4 == emit([forgetSequenceIds(s3) EXCEPT !.state = "CLOSED",
                              !.aborted = abort, !.joined = {}],
                          "disconnected", <<reason, abort>>)
           IN  [Base_connect(s4) EXCEPT !.ret = Some(TRUE)]

\* BaseClient.close(reason, abortReconnect = !this._autoReconnect)
Base_close(s, reason, abortReconnect) ==
  LET abort == IF IsSome(abortReconnect) THEN abortReconnect[1] ELSE ~s.autoReconnect
      s1 == [s EXCEPT !.state = "CLOSING"]
  IN  IF s.state \in {"CLOSED", "CLOSING"} THEN [s1 EXCEPT !.ret = Some(FALSE)]
      ELSE LET s2 == [s1 EXCEPT !.socket = "null", !.sequence = 0,
                                !.lastCommandPacketSentAt = None,
                                !.lastCommandPacketReceivedAt = None]
               s3 == clearTimeout(clearTimeout(s2, "login"), "heartbeat")
               s4 == emit([forgetSequenceIds(s3) EXCEPT !.state = "CLOSED",
                              !.aborted = abort, !.joined = {}],
                          "disconnected", <<reason, abort>>)
               s5 == IF ~abort THEN Base_connect(s4) ELSE s4
           IN  [s5 EXCEPT !.ret = Some(TRUE)]

\* Arcon.close(reason, abortReconnect)
Arcon_close(s, reason, abortReconnect) ==
  LET s1 == [s EXCEPT !.players = EmptyMap, !.connectingPlayers = EmptyMap,
                      !.packetParts = <<>>, !.commandQueue = <<>>,
                      !.waitingForCommandResponse = FALSE, !.ready = FALSE,
                      !.inFlightSeq = None, !.firstSent = None]
      s2 == clearTimer(clearTimer(s1, s1.playerUpdateInterval), s1.commandQueueInterval)
  IN  Base_close(s2, reason, abortReconnect)

sendCommand(s, command) == [s EXCEPT !.commandQueue = Append(@, command)]

includes(queue, command) == \E i \in 1..Len(queue) : queue[i] = command

\* The callback of the roster-poll interval (index.ts 213-215)
playerUpdateTick(s) ==
  IF ~includes(s.commandQueue, "players") THEN sendCommand(s, "players") ELSE s

\* Arcon's listener of 'connected' (index.ts 208-218)
connectedListener(s) ==
  LET id1 == NewTimer(s)
      s1  == [setTimer(s, id1, "commandQueue", CommandQueuePeriodMs, TRUE)
                EXCEPT !.commandQueueInterval = Some(id1)]
      id2 == NewTimer(s1)
      s2  == [setTimer(s1, id2, "playerUpdate", s1.playerUpdateRate, TRUE)
                EXCEPT !.playerUpdateInterval = Some(id2)]
  IN  sendCommand(s2, "players")

\* _getSequence: the number is s.sequence; this is the state it leaves.
getSequence(s) ==
  [s EXCEPT !.sequence = (s.sequence + 1) % SequenceModulus,
            !.lastCommandPacketSentAt = Some(0)]

Base_handleCommandPacket(s, packet) == [s EXCEPT !.lastCommandPacketReceivedAt = Some(0)]

\* packet.data.toString() === '0'
IsInvalidPassword(packet) == toString(packet.data) = <<48>>

\* A login handler that leaves the login deadline running
handleLoginPacket_KeepDeadline(s, packet) ==
  IF IsInvalidPassword(packet)
  THEN Arcon_close(emit(s, "error", <<"ArconError", "Invalid password.">>),
                   "Invalid password.", Some(TRUE))
  ELSE LET s2 == connectedListener(emit([s EXCEPT !.state = "CONNECTED"],
                                        "connected", <<>>))
           id == NewTimer(s2)
       IN  [setTimer(s2, id, "heartbeat", HeartbeatPeriodMs, TRUE)
              EXCEPT !.timeouts = MapSet(@, "heartbeat", id)]

\* BaseClient._handleLoginPacket
handleLoginPacket(s, packet) ==
  LET s1 == clearTimeout(s, "login")
  IN  IF IsInvalidPassword(packet)
      THEN Arcon_close(emit(s1, "error", <<"ArconError", "Invalid password.">>),
                       "Invalid password.", Some(TRUE))
      ELSE LET s2 == connectedListener(emit([s1 EXCEPT !.state = "CONNECTED"],
                                            "connected", <<>>))
               id == NewTimer(s2)
           IN  [setTimer(s2, id, "heartbeat", HeartbeatPeriodMs, TRUE)
                  EXCEPT !.timeouts = MapSet(@, "heartbeat", id)]

\* The acknowledgement numbered by the client's own counter
Base_handleMessagePacket_OwnSequence(s, packet) ==
  send(s, PacketCreate(PacketTypes.Message, None, s.sequence))

\* BaseClient._handleMessagePacket: the acknowledgement
Base_handleMessagePacket(s, packet) ==
  send(s, PacketCreate(PacketTypes.Message, None, packet.sequence))

sendHeartbeat(s) == send(getSequence(s), PacketCreate(PacketTypes.Command, None, s.sequence))

heartbeat(s) ==
  IF ~IsSome(s.lastCommandPacketSentAt) THEN sendHeartbeat(s)
  ELSE LET lastCommandDiff == s.lastCommandPacketSentAt[1]
       IN  IF /\ IsSome(s.lastCommandPacketReceivedAt)
              /\ s.lastCommandPacketReceivedAt[1] - s.lastCommandPacketSentAt[1]
                   > ResponseTimeoutMs
           THEN Arcon_close(s, "Connection timed out.", None)
           ELSE IF lastCommandDiff > HeartbeatIdleMs THEN sendHeartbeat(s)
           ELSE s

\* The callback of the login deadline (part_009 263-265)
loginTimeout(s) == Arcon_close(s, "Login timed out.", None)

sendLogin(s) ==
  LET id == NewTimer(s)
      s1 == [setTimer(s, id, "login", LoginTimeoutMs, FALSE)
               EXCEPT !.timeouts = MapSet(@, "login", id)]
  IN  send(s1, [t |-> "LoginPacket", data |-> Text("password")])

\* The socket's 'error' listener (part_009 281-284)
socketError(s) == Arcon_close(emit(s, "error", <<"Error", "socket">>), "Socket error.", None)

\* The parts of the packet's sequence, in the order they were stored
PartsOf(parts, seq) == SelectSeq(parts, LAMBDA part : part.sequence = seq)

\* The parts left in the order they arrived in
SortParts_ArrivalOrder(parts) == parts

\* parts.sort((a, b) => a.packetIndex - b.packetIndex): a stable sort
RECURSIVE SortParts(_)
SortParts(parts) ==
  IF Len(parts) <= 1 THEN parts
  ELSE LET least == CHOOSE i \in 1..Len(parts) :
                      /\ \A j \in 1..Len(parts) : parts[i].packetIndex <= parts[j].packetIndex
                      /\ \A j \in 1..(i - 1) : parts[j].packetIndex # parts[i].packetIndex
       IN  <<parts[least]>> \o
           SortParts(SubSeq(parts, 1, least - 1) \o SubSeq(parts, least + 1, Len(parts)))

\* Buffer.concat(parts.map((part) => part.data))
RECURSIVE ConcatData(_)
ConcatData(parts) ==
  IF parts = <<>> THEN <<>> ELSE Head(parts).data \o ConcatData(Tail(parts))

\* The tail of Arcon._handleCommandPacket, from line 286: the response is
\* whole (commandPacket) or still incomplete (None).
commandResponse(s, commandPacket) ==
  IF ~IsSome(commandPacket) \/ Len(commandPacket[1].data) = 0 THEN s
  ELSE LET data == commandPacket[1].data
           s1 == [s EXCEPT !.waitingForCommandResponse = FALSE,
                           !.lastCommandSentAt = None,
                           !.commandQueue = IF Len(@) > 0 THEN Tail(@) ELSE @,
                           !.packetParts = <<>>,
                           !.inFlightSeq = None, !.firstSent = None]
       IN  IF startsWith(data, "Players on server:") THEN playerList(s1, data)
           ELSE IF startsWith(data, "Missions on server:") THEN missions(s1, data)
           ELSE emit(s1, "error", <<"Error", "Unsupported command type">>)

Arcon_handleCommandPacket(s, packet) ==
  LET s1 == Base_handleCommandPacket(s, packet)
  IN  IF packet.t = "CommandPacketPart"
      THEN LET duplicatePart ==
                 \E i \in 1..Len(s1.packetParts) :
                    /\ packet.sequence = s1.packetParts[i].sequence
                    /\ packet.packetIndex = s1.packetParts[i].packetIndex
           IN  IF duplicatePart THEN s1
               ELSE LET s2 == [s1 EXCEPT !.packetParts = Append(@, packet)]
                        parts == PartsOf(s2.packetParts, packet.sequence)
                    IN  IF packet.totalPackets = Len(parts)
                        THEN commandResponse(s2,
                               Some(PacketCreate(PacketTypes.Command,
                                                 ConcatData(SortParts(parts)),
                                                 packet.sequence)))
                        ELSE commandResponse(s2, None)
      ELSE commandResponse(s1, Some(packet))

\* Arcon._getMessageType and the switch of _handleMessagePacket
dispatchMessage(s, m) ==
  CASE m.k = "playerConnected"      -> playerConnected(s, m)
    [] m.k = "playerGuidCalculated" -> playerGuidCalculated(s, m)
    [] m.k = "playerGuidVerified"   -> playerGuidVerified(s, m)
    [] m.k = "playerDisconnected"   -> playerDisconnected(s, m)
    [] m.k = "playerKicked"         -> playerKicked(s, m)
    [] m.k = "beLog"                -> beLog(s, m)
    [] m.k = "playerMessage"        -> playerMessage(s, m)
    [] m.k = "adminMessage"         -> adminMessage(s, m)
    [] m.k = "rconError"            -> emit(s, "error", <<"ArconError", "RCON error">>)
    [] m.k = "unknown"              -> emit(s, "error", <<"Error", "Unknown message type">>)
    [] OTHER                        -> s

\* A message handler that does not wait for the first roster
Arcon_handleMessagePacket_Ungated(s, packet) ==
  LET s1 == Base_handleMessagePacket(s, packet)
  IN  IF hasSeenSequenceId(s1, packet.sequence) THEN s1
      ELSE LET s2 == handleSequenceId(s1, packet.sequence)
           IN  IF Len(packet.data) = 0 THEN s2
               ELSE IF packet.data[1].k = "adminLogin" THEN s2
               ELSE dispatchMessage(s2, packet.data[1])

Arcon_handleMessagePacket(s, packet) ==
  LET s1 == Base_handleMessagePacket(s, packet)
  IN  IF hasSeenSequenceId(s1, packet.sequence) THEN s1
      ELSE LET s2 == handleSequenceId(s1, packet.sequence)
           IN  IF Len(packet.data) = 0 THEN s2
               ELSE IF packet.data[1].k = "adminLogin" \/ ~s2.ready THEN s2
               ELSE dispatchMessage(s2, packet.data[1])

\* BaseClient._handleMessage on what createPacket made of the datagram
handleMessage(s, packet) ==
  IF packet.t = "PacketError" THEN emit(s, "error", <<"PacketError", packet.error>>)
  ELSE IF packet.t = "LoginPacket" THEN handleLoginPacket(s, packet)
  ELSE IF s.state # "CONNECTED" THEN s
  ELSE IF packet.t = "Packet" /\ packet.type = PacketTypes.Message
  THEN Arcon_handleMessagePacket(s, packet)
  ELSE Arcon_handleCommandPacket(s, packet)

\* The scheduler sending the newest command of the queue
processCommandQueue_Newest(s) ==
  IF s.waitingForCommandResponse
  THEN IF IsSome(s.lastCommandSentAt) /\ s.lastCommandSentAt[1] > CommandResendMs
       THEN [s EXCEPT !.packetParts = <<>>, !.waitingForCommandResponse = FALSE,
                      !.inFlightSeq = None]
       ELSE s
  ELSE IF Len(s.commandQueue) = 0 THEN s
  ELSE LET packet == PacketCreate(PacketTypes.Command,
                                  Text(s.commandQueue[Len(s.commandQueue)]),
                                  s.sequence)
           s1 == [s EXCEPT !.waitingForCommandResponse = TRUE,
                           !.lastCommandSentAt = Some(0),
                           !.inFlightSeq = Some(s.sequence),
                           !.firstSent = IF IsSome(@) THEN @ ELSE Some(packet)]
       IN  send(getSequence(s1), packet)

\* Arcon._processCommandQueue
processCommandQueue(s) ==
  IF s.waitingForCommandResponse
  THEN IF IsSome(s.lastCommandSentAt) /\ s.lastCommandSentAt[1] > CommandResendMs
       THEN [s EXCEPT !.packetParts = <<>>, !.waitingForCommandResponse = FALSE,
                      !.inFlightSeq = None]
       ELSE s
  ELSE IF Len(s.commandQueue) = 0 THEN s
  ELSE LET packet == PacketCreate(PacketTypes.Command, Text(s.commandQueue[1]),
                                  s.sequence)
           s1 == [s EXCEPT !.waitingForCommandResponse = TRUE,
                           !.lastCommandSentAt = Some(0),
                           !.inFlightSeq = Some(s.sequence),
                           !.firstSent = IF IsSome(@) THEN @ ELSE Some(packet)]
       IN  send(getSequence(s1), packet)

\* The callback of a timer, by its kind
timerCallback(s, kind) ==
  CASE kind = "login"        -> loginTimeout(s)
    [] kind = "heartbeat"    -> heartbeat(s)
    [] kind = "commandQueue" -> processCommandQueue(s)
    [] kind = "playerUpdate" -> playerUpdateTick(s)

\* The runtime runs a due timer: a timeout is spent before its callback
\* runs; an interval is armed again unless its callback cleared it.
runTimer(s, id) ==
  LET timer == s.timers[id]
      s1 == IF timer.repeat THEN s ELSE clearTimer(s, Some(id))
      s2 == timerCallback(s1, timer.kind)
  IN  IF timer.repeat /\ id \in DOMAIN s2.timers
      THEN [s2 EXCEPT !.timers[id].left = Max(timer.period, Quantum)]
      ELSE s2

Older(date) == IF IsSome(date) THEN Some(Min(date[1] + Quantum, AgeCap)) ELSE date

\* Quantum milliseconds pass.
advance(s) ==
  [s EXCEPT !.timers = [id \in DOMAIN s.timers |->
                          [s.timers[id] EXCEPT !.left = Max(@ - Quantum, 0)]],
            !.lastCommandPacketSentAt = Older(@),
            !.lastCommandPacketReceivedAt = Older(@),
            !.lastCommandSentAt = Older(@)]

(***************************************************************************)
(* What the server sends.                                                  *)
(***************************************************************************)
PlayerIds == 1..MaxPlayers

Guids == {"guid-a", "guid-b"}

Header == [k |-> "Players on server:"]

LoginPackets ==
  {createPacket(ServerFrame(PacketTypes.Login, <<status>>)) : status \in {0, 1, 48}}

BadPackets == {createPacket(<<66, 69, 0, 0>>)}

WholePacket(type, seq, data) ==
  [t |-> "Packet", type |-> type, sequence |-> seq, data |-> data]

PartPacket(seq, total, index, data) ==
  [t |-> "CommandPacketPart", sequence |-> seq, totalPackets |-> total,
   packetIndex |-> index, data |-> data]

\* Command responses of the session's scenarios: empty, an empty roster, text
SessionCommandPackets ==
  {WholePacket(PacketTypes.Command, seq, data) :
     seq \in 0..MaxCmdSeq, data \in {<<>>, <<Header>>, Text("ok")}}

\* The server numbers its messages from 0; a message is the next new one or a
\* copy of an earlier one.
InOrder(packet) ==
  (packet.t = "Packet" /\ packet.type = PacketTypes.Message)
    => packet.sequence <= Len(seenSequences)

\* The server answers the login of a session once; a second copy of the
\* answer is a duplicated datagram.
Answered(packet) == packet.t = "LoginPacket" => state = "CONNECTING"

\* A login response starts three intervals; the model holds MaxTimers timers.
Affordable(packet) ==
  packet.t = "LoginPacket" => Cardinality(DOMAIN timers) + 3 <= MaxTimers

(***************************************************************************)
(* The actions: one per entry of the event loop.                           *)
(***************************************************************************)
Untouched == UNCHANGED <<ticks, silent, legacy>>

Connect ==
  /\ Becomes(Base_connect(Begin))
  /\ last' = [op |-> "connect"]
  /\ Untouched

Close(reason, abortReconnect) ==
  /\ Becomes(Arcon_close(Begin, reason, abortReconnect))
  /\ last' = [op |-> "close", was |-> state, abortReconnect |-> abortReconnect]
  /\ Untouched

SendCommand(command) ==
  /\ Len(commandQueue) < MaxQueue
  /\ Becomes(sendCommand(Begin, command))
  /\ last' = [op |-> "sendCommand", command |-> command]
  /\ Untouched

\* The socket's 'connect' event: the login is sent.
SocketConnect ==
  /\ socket = "created"
  /\ Becomes(sendLogin([Begin EXCEPT !.socket = "connected"]))
  /\ last' = [op |-> "socketConnect"]
  /\ Untouched

SocketError ==
  /\ socket # "null"
  /\ Becomes(socketError(Begin))
  /\ last' = [op |-> "socketError"]
  /\ Untouched

\* The socket's 'message' event
Receive(packet) ==
  /\ socket = "connected"
  /\ ~silent
  /\ InOrder(packet)
  /\ Affordable(packet)
  /\ Becomes(handleMessage(Begin, packet))
  /\ last' = [op |-> "receive", packet |-> packet, was |-> state]
  /\ Untouched

TimerFire(id) ==
  /\ id \in DOMAIN timers
  /\ timers[id].left = 0
  /\ Becomes(runTimer(Begin, id))
  /\ last' = [op |-> "timer", kind |-> timers[id].kind]
  /\ UNCHANGED <<ticks, silent, legacy>>

\* Time passes once every due timer has run.
Tick ==
  /\ \A id \in DOMAIN timers : timers[id].left > 0
  /\ Becomes(advance(Begin))
  /\ last' = [op |-> "tick"]
  /\ ticks' = Min(ticks + 1, MaxTicks)
  /\ UNCHANGED <<silent, legacy>>

BoundedTick == ticks < MaxTicks /\ Tick

\* From now on no datagram of the server reaches the client.
GoSilent ==
  /\ socket = "connected"
  /\ ~silent
  /\ silent' = TRUE
  /\ Becomes(Begin)
  /\ last' = [op |-> "goSilent"]
  /\ UNCHANGED <<ticks, legacy>>

(***************************************************************************)
(* The earlier release: the session of client.ts and the attempt-counting  *)
(* scheduler of part_011, held in the one record legacy.  Its roster is    *)
(* not modelled: _processCommand and the message handlers touch no field   *)
(* of the session or of the scheduler.                                     *)
(***************************************************************************)
LegacyQuantum == 100
LegacyMaxAttempts == 5
LegacyResendMs == 4000
LegacyPartQuietMs == 500
LegacyReconnectMs == 5000
LegacyLoginTimeoutMs == 5000
LegacyHeartbeatPeriodMs == 1000
LegacyHeartbeatIdleMs == 22500
LegacyConnectionLimitMs == 25000

\* new Arcon(options), client.ts 47-54 and part_011 54-71
Legacy_constructed(reconnects, updateRate) ==
  [connected |-> FALSE, socket |-> "null", seqeuence |-> 0,
   autoReconnect |-> reconnects, sequenceModifiedAt |-> None,
   lastPacketReceivedAt |-> None, commandQueue |-> <<>>,
   waitingForResponse |-> FALSE, commandSendAttempts |-> 0,
   commandSendTime |-> None, lastCommandPartReceivedAt |-> 0,
   packetParts |-> <<>>, playerUpdateIntervalTime |-> updateRate,
   handles |-> EmptyMap, timers |-> EmptyMap,
   out |-> <<>>, ev |-> <<>>, last |-> [op |-> "init"], sent |-> 0]

Legacy_begin(l) == [l EXCEPT !.out = <<>>, !.ev = <<>>]

Legacy_emit(l, name, args) ==
  [l EXCEPT !.ev = Append(@, [name |-> name, args |-> args])]

Legacy_socketSend(l, packet) == [l EXCEPT !.out = Append(@, packet)]

\* A timer is named by the field that is assigned its handle and a number
\* no live timer of that field has; the field's earlier handle is
\* overwritten, so no handle is left that names the new timer by accident.
Legacy_newTimer(l, field) ==
  LET live == {id[2] : id \in {i \in DOMAIN l.timers : i[1] = field}}
  IN  <<field, CHOOSE n \in 0..Cardinality(live) :
                 n \notin live /\ \A m \in 0..(n - 1) : m \in live>>

\* field = setTimeout / setInterval(callback, ms); a timeout kept in no
\* field has the field "none".
Legacy_setTimer(l, field, kind, ms, repeat) ==
  LET id == Legacy_newTimer(l, field)
      timer == [kind |-> kind, period |-> ms, left |-> ms, repeat |-> repeat]
  IN  [l EXCEPT !.timers = MapSet(@, id, timer),
                !.handles = IF field = "none" THEN @ ELSE MapSet(@, field, id)]

\* clearTimeout / clearInterval(field)
Legacy_clearTimer(l, field) ==
  IF field \in DOMAIN l.handles
  THEN [l EXCEPT !.timers = MapDelete(@, l.handles[field])]
  ELSE l

Legacy_connect(l) == IF l.connected THEN l ELSE [l EXCEPT !.socket = "created"]

\* BaseClient.close(abortReconnect), client.ts 75-92
Legacy_baseClose(l, abortReconnect) ==
  IF ~l.connected THEN l
  ELSE LET l1 == [l EXCEPT !.connected = FALSE, !.socket = "closed", !.seqeuence = 0]
           l2 == Legacy_clearTimer(
                   Legacy_clearTimer(
                     Legacy_clearTimer(l1, "heartbeatInverval"), "loginTimeout"),
                   "connectionCheckInterval")
       IN  IF abortReconnect \/ ~l2.autoReconnect THEN l2
           ELSE Legacy_setTimer(l2, "none", "reconnect", LegacyReconnectMs, FALSE)

\* Arcon.close(abortReconnect), part_011 77-91
Legacy_close(l, abortReconnect) ==
  LET l1 == Legacy_clearTimer(Legacy_clearTimer(l, "commandProcessInterval"),
                              "playerUpdateInterval")
  IN  Legacy_baseClose([l1 EXCEPT !.commandQueue = <<>>, !.waitingForResponse = FALSE,
                                  !.commandSendAttempts = 0, !.packetParts = <<>>,
                                  !.sent = 0],
                       abortReconnect)

Legacy_getSequence(l) ==
  [l EXCEPT !.seqeuence = (@ + 1) % SequenceModulus, !.sequenceModifiedAt = Some(0)]

Legacy_sendCommand(l, command) ==
  [Legacy_getSequence(l) EXCEPT
     !.commandQueue = Append(@, PacketCreate(PacketTypes.Command, Text(command),
                                             l.seqeuence))]

Legacy_playerUpdate(l) ==
  IF ~l.connected THEN l
  ELSE IF \E i \in 1..Len(l.commandQueue) : l.commandQueue[i].data = Text("players")
  THEN l
  ELSE Legacy_sendCommand(l, "players")

\* Arcon's listener of 'connected', part_011 59-70
Legacy_connectedListener(l) ==
  Legacy_setTimer(
    Legacy_setTimer(Legacy_sendCommand(l, "players"),
                    "commandProcessInterval", "process", LegacyQuantum, TRUE),
    "playerUpdateInterval", "update", l.playerUpdateIntervalTime, TRUE)

Legacy_handleLogin(l, packet) ==
  LET l1 == Legacy_clearTimer(l, "loginTimeout")
  IN  IF toString(packet.data) = <<48>>
      THEN Legacy_close(Legacy_emit(l1, "error", <<"Error", "Login failed">>), TRUE)
      ELSE LET l2 == Legacy_setTimer([l1 EXCEPT !.connected = TRUE],
                                     "heartbeatInverval", "heartbeat",
                                     LegacyHeartbeatPeriodMs, TRUE)
               l3 == Legacy_setTimer(l2, "connectionCheckInterval", "check",
                                     LegacyHeartbeatPeriodMs, TRUE)
           IN  Legacy_connectedListener(Legacy_emit(l3, "connected", <<>>))

\* Arcon._handleCommandPacket, part_011 123-148
Legacy_handleCommandPacket(l, packet) ==
  LET isPart == packet.t = "CommandPacketPart"
      l1 == IF isPart
            THEN [l EXCEPT !.lastCommandPartReceivedAt = 0,
                           !.packetParts = Append(@, packet)]
            ELSE l
      complete == isPart /\ packet.totalPackets = Len(l1.packetParts)
      l2 == IF complete THEN [l1 EXCEPT !.packetParts = SortParts(@)] ELSE l1
      data == IF complete THEN ConcatData(l2.packetParts)
              ELSE IF isPart THEN <<>> ELSE packet.data
  IN  IF Len(data) = 0 THEN l2
      ELSE [l2 EXCEPT !.waitingForResponse = FALSE, !.commandSendAttempts = 0,
                      !.commandQueue = IF Len(@) > 0 THEN Tail(@) ELSE @,
                      !.sent = 0]

\* BaseClient._handleMessagePacket, client.ts 127-131
Legacy_handleMessagePacket(l, packet) ==
  Legacy_socketSend(l, PacketCreate(PacketTypes.Message, None, packet.sequence))

\* BaseClient._parseMessage, client.ts 133-145
Legacy_parseMessage(l, packet) ==
  IF packet.t = "PacketError" THEN Legacy_emit(l, "error", <<"PacketError", packet.error>>)
  ELSE LET l1 == [l EXCEPT !.lastPacketReceivedAt = Some(0)]
       IN  IF packet.t = "LoginPacket" THEN Legacy_handleLogin(l1, packet)
           ELSE IF packet.t = "Packet" /\ packet.type = PacketTypes.Message
           THEN Legacy_handleMessagePacket(l1, packet)
           ELSE Legacy_handleCommandPacket(l1, packet)

Legacy_sendHeartbeat(l) ==
  IF ~l.connected THEN l
  ELSE IF IsSome(l.sequenceModifiedAt) /\ l.sequenceModifiedAt[1] < LegacyHeartbeatIdleMs
  THEN l
  ELSE Legacy_socketSend(Legacy_getSequence(l),
                         PacketCreate(PacketTypes.Command, None, l.seqeuence))

Legacy_checkConnection(l) ==
  IF l.lastPacketReceivedAt[1] > LegacyConnectionLimitMs THEN Legacy_close(l, FALSE)
  ELSE l

Legacy_sendLogin(l) ==
  Legacy_socketSend(
    Legacy_setTimer(l, "loginTimeout", "login", LegacyLoginTimeoutMs, FALSE),
    [t |-> "LoginPacket", data |-> Text("password")])

Legacy_loginTimeout(l) ==
  Legacy_close(Legacy_emit(l, "error", <<"Error", "Login timeout">>), FALSE)

\* The first transmission of the head, when no response is awaited
Legacy_firstSend(l) ==
  IF l.waitingForResponse THEN l
  ELSE Legacy_socketSend([l EXCEPT !.commandSendTime = Some(0),
                                   !.waitingForResponse = TRUE,
                                   !.commandSendAttempts = @ + 1,
                                   !.packetParts = <<>>,
                                   !.sent = @ + 1],
                         l.commandQueue[1])

\* The scheduler giving up one attempt late
Legacy_processCommandQueue_LateGiveUp(l) ==
  IF Len(l.commandQueue) = 0 \/ ~l.connected THEN l
  ELSE LET l1 == Legacy_firstSend(l)
       IN  IF l1.commandSendAttempts > LegacyMaxAttempts + 1
           THEN Legacy_close(
                  Legacy_emit(l1, "error", <<"Error", "Command response timeout">>),
                  FALSE)
           ELSE IF l1.commandSendTime[1] < LegacyResendMs THEN l1
           ELSE IF l1.lastCommandPartReceivedAt < LegacyPartQuietMs THEN l1
           ELSE Legacy_socketSend([l1 EXCEPT !.commandSendAttempts = @ + 1,
                                             !.commandSendTime = Some(0),
                                             !.sent = @ + 1],
                                  l1.commandQueue[1])

\* Arcon._processCommandQueue, part_011 255-292
Legacy_processCommandQueue(l) ==
  IF Len(l.commandQueue) = 0 \/ ~l.connected THEN l
  ELSE LET l1 == Legacy_firstSend(l)
       IN  IF l1.commandSendAttempts > LegacyMaxAttempts
           THEN Legacy_close(
                  Legacy_emit(l1, "error", <<"Error", "Command response timeout">>),
                  FALSE)
           ELSE IF l1.commandSendTime[1] < LegacyResendMs THEN l1
           ELSE IF l1.lastCommandPartReceivedAt < LegacyPartQuietMs THEN l1
           ELSE Legacy_socketSend([l1 EXCEPT !.commandSendAttempts = @ + 1,
                                             !.commandSendTime = Some(0),
                                             !.sent = @ + 1],
                                  l1.commandQueue[1])

Legacy_timerCallback(l, kind) ==
  CASE kind = "login"     -> Legacy_loginTimeout(l)
    [] kind = "heartbeat" -> Legacy_sendHeartbeat(l)
    [] kind = "check"     -> Legacy_checkConnection(l)
    [] kind = "process"   -> Legacy_processCommandQueue(l)
    [] kind = "update"    -> Legacy_playerUpdate(l)
    [] kind = "reconnect" -> Legacy_connect(l)

Legacy_runTimer(l, id) ==
  LET timer == l.timers[id]
      l1 == IF timer.repeat THEN l ELSE [l EXCEPT !.timers = MapDelete(@, id)]
      l2 == Legacy_timerCallback(l1, timer.kind)
  IN  IF timer.repeat /\ id \in DOMAIN l2.timers
      THEN [l2 EXCEPT !.timers[id].left = Max(timer.period, LegacyQuantum)]
      ELSE l2

\* A date is kept as its age, up to the limit it is compared with.
Legacy_older(date, limit) ==
  IF IsSome(date) THEN Some(Min(date[1] + LegacyQuantum, limit + LegacyQuantum))
  ELSE date

\* LegacyQuantum milliseconds pass.
Legacy_advance(l) ==
  [l EXCEPT !.timers = [id \in DOMAIN l.timers |->
                          [l.timers[id] EXCEPT !.left = Max(@ - LegacyQuantum, 0)]],
            !.sequenceModifiedAt = Legacy_older(@, LegacyHeartbeatIdleMs),
            !.lastPacketReceivedAt = Legacy_older(@, LegacyConnectionLimitMs),
            !.commandSendTime = Legacy_older(@, LegacyResendMs),
            !.lastCommandPartReceivedAt = Min(@ + LegacyQuantum, LegacyPartQuietMs)]

\* The state after new Arcon({autoReconnect, playerUpdateInterval})
Constructed(reconnects, updateRate) ==
  /\ autoReconnect = reconnects
  /\ sequence = 0
  /\ lastCommandPacketSentAt = None
  /\ lastCommandPacketReceivedAt = None
  /\ socket = "null"
  /\ state = "CLOSED"
  /\ timeouts = EmptyMap
  /\ ready = FALSE
  /\ players = EmptyMap
  /\ connectingPlayers = EmptyMap
  /\ playerUpdateRate = updateRate
  /\ playerUpdateInterval = None
  /\ lastCommandSentAt = None
  /\ commandQueueInterval = None
  /\ commandQueue = <<>>
  /\ packetParts = <<>>
  /\ waitingForCommandResponse = FALSE
  /\ seenSequences = <<>>
  /\ timers = EmptyMap
  /\ ticks = 0
  /\ silent = FALSE
  /\ last = [op |-> "init"]
  /\ ret = None
  /\ out = <<>>
  /\ ev = <<>>
  /\ inFlightSeq = None
  /\ joined = {}
  /\ aborted = FALSE
  /\ firstSent = None
  /\ legacy = Legacy_constructed(reconnects, updateRate)

Init == \E reconnects \in BOOLEAN : Constructed(reconnects, DefaultPlayerUpdateRate)

CloseArguments == {None, Some(TRUE), Some(FALSE)}

UserCommands == {"say -1 hello"}

\* The session and the scheduler, with the roster left empty and no datagram
\* duplicated.
Next ==
  \/ Connect
  \/ \E abortReconnect \in CloseArguments : Close("user", abortReconnect)
  \/ \E command \in UserCommands : SendCommand(command)
  \/ SocketConnect
  \/ SocketError
  \/ \E packet \in LoginPackets \cup BadPackets \cup SessionCommandPackets :
        Answered(packet) /\ Receive(packet)
  \/ \E id \in DOMAIN timers : TimerFire(id)
  \/ BoundedTick

Spec == Init /\ [][Next]_vars

\* A session whose login answer may arrive twice.
NextDuplicateLogin ==
  \/ Connect
  \/ \E abortReconnect \in CloseArguments : Close("user", abortReconnect)
  \/ SocketConnect
  \/ \E packet \in {createPacket(ServerFrame(PacketTypes.Login, <<1>>))} :
        Receive(packet)
  \/ \E id \in DOMAIN timers : TimerFire(id)
  \/ BoundedTick

SpecDuplicateLogin == Init /\ [][NextDuplicateLogin]_vars

(***************************************************************************)
(* The roster: a session that polls the roster and hears of players.       *)
(***************************************************************************)
\* A row of the answer to 'players': a player still without a GUID is
\* listed with "-" and no mark.
Row(id, ping, guid, verifiedStr, lobbyStr) ==
  [k |-> "row", id |-> id, ip |-> "10.0.0.1", name |-> "ann", ping |-> ping,
   guid |-> guid, verifiedStr |-> verifiedStr, lobbyStr |-> lobbyStr]

RosterRows ==
  UNION {{Row(id, 10, "guid-a", "OK", "Lobby"), Row(id, 20, "guid-a", "OK", ""),
          Row(id, 10, "guid-a", "?", "Lobby"), Row(id, 10, "-", "", "Lobby")} :
         id \in PlayerIds}

RosterDumps == {<<Header>>} \cup {<<Header, row>> : row \in RosterRows}

RosterMessages ==
  {[k |-> "playerConnected", id |-> id, ip |-> "10.0.0.1", name |-> "ann"] :
     id \in PlayerIds}
    \cup {[k |-> kind, id |-> id, guid |-> guid] :
            kind \in {"playerGuidCalculated", "playerGuidVerified"},
            id \in PlayerIds, guid \in Guids}
    \cup {[k |-> "playerDisconnected", id |-> id] : id \in PlayerIds}
    \cup {[k |-> "playerKicked", id |-> id, reason |-> "Ban"] : id \in PlayerIds}

\* The answers the server gives to the command in flight: a roster, whole or
\* in two parts.
RosterCommandPackets ==
  {WholePacket(PacketTypes.Command, seq, data) :
     seq \in 0..MaxCmdSeq, data \in RosterDumps}
    \cup {PartPacket(seq, 2, 0, <<Header>>) : seq \in 0..MaxCmdSeq}
    \cup {PartPacket(seq, 2, 1, <<row>>) :
            seq \in 0..MaxCmdSeq, row \in {r \in RosterRows : r.verifiedStr = "OK"}}

RosterMessagePackets ==
  {WholePacket(PacketTypes.Message, seq, <<m>>) :
     seq \in 0..MaxMsgSeq, m \in RosterMessages}

\* The server answers the command it was sent.
Solicited(packet) ==
  (packet.t = "CommandPacketPart"
     \/ (packet.t = "Packet" /\ packet.type = PacketTypes.Command))
    => (IsSome(inFlightSeq) /\ inFlightSeq[1] = packet.sequence)

NextRoster ==
  \/ Connect
  \/ Close("user", Some(TRUE))
  \/ SocketConnect
  \/ \E packet \in {createPacket(ServerFrame(PacketTypes.Login, <<1>>))} :
        Answered(packet) /\ Receive(packet)
  \/ \E packet \in RosterCommandPackets : Solicited(packet) /\ Receive(packet)
  \/ \E packet \in RosterMessagePackets : Receive(packet)
  \/ \E id \in DOMAIN timers : TimerFire(id)
  \/ BoundedTick

\* autoReconnect is left at its default (part_009 66).
InitRoster == Constructed(TRUE, DefaultPlayerUpdateRate)

SpecRoster == InitRoster /\ [][NextRoster]_vars

(***************************************************************************)
(* The watchdog: a session whose server falls silent within MaxTicks       *)
(* quanta, followed from then on for as long as it lasts.  Time passes and *)
(* a due timer runs.                                                       *)
(***************************************************************************)
\* The roster is polled as often as an unanswered command is sent again,
\* which keeps the cycle of a silent session short.
WatchdogUpdateRate == CommandResendMs + 2 * CommandQueuePeriodMs

InitWatchdog == Constructed(TRUE, WatchdogUpdateRate)

WatchdogTick == (silent \/ ticks < MaxTicks) /\ Tick

NextWatchdog ==
  \/ state = "CLOSED" /\ Connect
  \/ SocketConnect
  \/ \E packet \in {createPacket(ServerFrame(PacketTypes.Login, <<1>>))} :
        Answered(packet) /\ Receive(packet)
  \/ \E packet \in {WholePacket(PacketTypes.Command, seq, <<Header>>) :
                      seq \in 0..MaxCmdSeq} :
        Solicited(packet) /\ Receive(packet)
  \/ GoSilent
  \/ \E id \in DOMAIN timers : TimerFire(id)
  \/ WatchdogTick

SpecWatchdog ==
  /\ InitWatchdog
  /\ [][NextWatchdog]_vars
  /\ WF_vars(WatchdogTick)
  /\ WF_vars(\E id \in DOMAIN timers : TimerFire(id))

(***************************************************************************)
(* The earlier release at work: its actions leave the current release's    *)
(* variables alone.                                                        *)
(***************************************************************************)
MaxParts == 2

Legacy_becomes(l, op) ==
  /\ legacy' = [l EXCEPT !.last = op]
  /\ UNCHANGED <<autoReconnect, sequence, lastCommandPacketSentAt,
                 lastCommandPacketReceivedAt, socket, state, timeouts, ready,
                 players, connectingPlayers, playerUpdateRate,
                 playerUpdateInterval, lastCommandSentAt, commandQueueInterval,
                 commandQueue, packetParts, waitingForCommandResponse,
                 seenSequences, timers, ticks, silent, last, ret, out, ev,
                 inFlightSeq, joined, aborted, firstSent>>

\* connect(), called once; later sockets are the release's own reconnects
LegacyConnect ==
  /\ legacy.socket = "null"
  /\ Legacy_becomes(Legacy_connect(Legacy_begin(legacy)), [op |-> "connect"])

\* sendCommand(command), called before the first connect()
LegacySendCommand(command) ==
  /\ legacy.socket = "null"
  /\ Len(legacy.commandQueue) < MaxQueue
  /\ Legacy_becomes(Legacy_sendCommand(Legacy_begin(legacy), command),
                    [op |-> "sendCommand"])

LegacySocketConnect ==
  /\ legacy.socket = "created"
  /\ Legacy_becomes(Legacy_sendLogin([Legacy_begin(legacy) EXCEPT !.socket = "connected"]),
                    [op |-> "socketConnect"])

LegacyReceive(packet) ==
  /\ legacy.socket = "connected"
  /\ packet.t = "LoginPacket" => ~legacy.connected
  /\ packet.t = "CommandPacketPart" => Len(legacy.packetParts) < MaxParts
  /\ Legacy_becomes(Legacy_parseMessage(Legacy_begin(legacy), packet),
                    [op |-> "receive", packet |-> packet])

LegacyTimerFire(id) ==
  /\ id \in DOMAIN legacy.timers
  /\ legacy.timers[id].left = 0
  /\ Legacy_becomes(Legacy_runTimer(Legacy_begin(legacy), id),
                    [op |-> "timer", kind |-> legacy.timers[id].kind])

LegacyTick ==
  /\ \A id \in DOMAIN legacy.timers : legacy.timers[id].left > 0
  /\ Legacy_becomes(Legacy_advance(Legacy_begin(legacy)), [op |-> "tick"])

\* What the server sends the earlier release: the answer to a login, the
\* answer to the first command of a session, whole, empty or in two parts.
LegacyPackets ==
  {createPacket(ServerFrame(PacketTypes.Login, <<1>>))}
    \cup {WholePacket(PacketTypes.Command, 0, data) : data \in {<<>>, Text("ok")}}
    \cup {PartPacket(0, 2, index, Text("ok")) : index \in 0..1}

\* The server answers the command it was sent last, within a quantum of one
\* of its transmissions or not at all.
LegacySolicited(packet) ==
  packet.t # "LoginPacket"
    => /\ legacy.waitingForResponse
       /\ legacy.commandQueue[1].sequence = packet.sequence
       /\ legacy.commandSendTime[1] <= LegacyQuantum

NextLegacy ==
  \/ LegacyConnect
  \/ \E command \in UserCommands : LegacySendCommand(command)
  \/ LegacySocketConnect
  \/ \E packet \in LegacyPackets : LegacySolicited(packet) /\ LegacyReceive(packet)
  \/ \E id \in DOMAIN legacy.timers : LegacyTimerFire(id)
  \/ LegacyTick

SpecLegacy == Init /\ [][NextLegacy]_vars

(***************************************************************************)
(* The claims.  ev, out and ret hold what the last step emitted, sent and  *)
(* returned; last names the step.                                          *)
(***************************************************************************)
Emitted(name) == \E i \in 1..Len(ev) : ev[i].name = name

EmittedWith(name, args) == \E i \in 1..Len(ev) : ev[i] = [name |-> name, args |-> args]

ReceivedCommand(op) ==
  /\ op.op = "receive"
  /\ op.packet.t \in {"Packet", "CommandPacketPart"}
  /\ op.packet.t = "Packet" => op.packet.type = PacketTypes.Command

\* C1: a session that has sent its login and receives the valid Login frame
\* of status byte 0x00 emits the invalid-password error, emits disconnected
\* with the invalid-password reason and aborted = true, never emits
\* connected, ends Closed and opens no new socket.
C1_LoginFailureClosesSession ==
  (/\ last.op = "receive"
   /\ last.was = "CONNECTING"
   /\ last.packet = createPacket(ServerFrame(PacketTypes.Login, <<0>>)))
    => /\ EmittedWith("error", <<"ArconError", "Invalid password.">>)
       /\ EmittedWith("disconnected", <<"Invalid password.", TRUE>>)
       /\ ~Emitted("connected")
       /\ state = "CLOSED"
       /\ socket = "null"

\* C2: a Command response whose sequence is not the sequence of the command
\* in flight (or that arrives while nothing is in flight) leaves the command
\* queue, the waiting flag and the roster unchanged.
C2_ResponseCorrelation ==
  [][(/\ ReceivedCommand(last')
      /\ (IsSome(inFlightSeq) => inFlightSeq[1] # last'.packet.sequence))
       => UNCHANGED <<commandQueue, waitingForCommandResponse, players>>]_vars

ReceivedMessage(op) ==
  /\ op.op = "receive"
  /\ op.packet.t = "Packet"
  /\ op.packet.type = PacketTypes.Message

Ack(seq) == PacketCreate(PacketTypes.Message, None, seq)

\* C3: every server-message frame received while Connected is answered by
\* exactly one acknowledgement carrying its sequence number, and a frame
\* whose sequence number was already seen changes neither the roster nor
\* the connecting-player set and emits no event.
C3_AckAndDedup ==
  [][(ReceivedMessage(last') /\ state = "CONNECTED")
       => /\ out' = <<Ack(last'.packet.sequence)>>
          /\ hasSeenSequenceId(Cur, last'.packet.sequence)
               => (UNCHANGED <<players, connectingPlayers>> /\ ev' = <<>>)]_vars

\* C3's case: once the roster is ready, a second copy of a 'connected'
\* notification is acknowledged and leaves the player, who has left since,
\* out of the connecting-player set.
C3_Witness ==
  /\ ReceivedMessage(last)
  /\ last.was = "CONNECTED"
  /\ ready
  /\ last.packet.data[1].k = "playerConnected"
  /\ last.packet.data[1].id \notin DOMAIN connectingPlayers
  /\ out = <<Ack(last.packet.sequence)>>

\* C4 (invariant I1): no player id is a key of the roster and of the
\* connecting-player set at once.
C4_RosterDisjoint == DOMAIN players \cap DOMAIN connectingPlayers = {}

JoinedBefore(events, i, id) ==
  \E j \in 1..(i - 1) :
    events[j].name = "playerConnected" /\ events[j].args[1].id = id

\* C5: within a session, a playerUpdated or playerDisconnected event of a
\* player id comes after a playerConnected event of that id.
C5_JoinFirst ==
  [][\A i \in 1..Len(ev') :
       ev'[i].name \in {"playerUpdated", "playerDisconnected"}
         => (ev'[i].args[1].id \in joined \/ JoinedBefore(ev', i, ev'[i].args[1].id))]_vars

\* C6: once close with abortReconnect = true has returned, and until the
\* user connects again, no step emits an event, runs a timer or sends a
\* frame.
C6_QuietAfterAbort ==
  [][aborted => (ev' = <<>> /\ out' = <<>> /\ last'.op # "timer")]_vars

\* C7: close() on a Closed session returns false, emits no disconnected and
\* leaves the state Closed.
C7_CloseIdempotent ==
  (last.op = "close" /\ last.was = "CLOSED")
    => (ret = Some(FALSE) /\ ~Emitted("disconnected") /\ state = "CLOSED")

\* C8: a Connected session that receives no datagram any more eventually
\* leaves Connected.
C8_WatchdogLiveness == (silent /\ state = "CONNECTED") ~> (state # "CONNECTED")

\* C9: a whole response to the command in flight, whatever its payload,
\* retires it: the queue head is dropped, the waiting flag and the send time
\* are reset and the reassembly buffer is cleared.
C9_RetireOnAnyResponse ==
  [][(/\ ReceivedCommand(last')
      /\ last'.packet.t = "Packet"
      /\ waitingForCommandResponse
      /\ IsSome(inFlightSeq)
      /\ inFlightSeq[1] = last'.packet.sequence)
       => /\ commandQueue' = Tail(commandQueue)
          /\ ~waitingForCommandResponse'
          /\ lastCommandSentAt' = None
          /\ packetParts' = <<>>]_vars

GaveUp(l) ==
  \E i \in 1..Len(l.ev) :
    l.ev[i] = [name |-> "error", args |-> <<"Error", "Command response timeout">>]

\* C10: the attempt-counting scheduler transmits the head command at most
\* LegacyMaxAttempts times after its first transmission; run with more
\* attempts than that on the count, it emits the command-timeout error,
\* transmits nothing, closes the session, empties the queue and, where
\* autoReconnect is on, schedules the reconnect.
C10_GiveUp ==
  [][/\ legacy'.sent <= 1 + LegacyMaxAttempts
     /\ (/\ legacy'.last = [op |-> "timer", kind |-> "process"]
         /\ legacy.connected
         /\ legacy.waitingForResponse
         /\ legacy.commandSendAttempts > LegacyMaxAttempts)
          => /\ GaveUp(legacy')
             /\ legacy'.out = <<>>
             /\ ~legacy'.connected
             /\ legacy'.commandQueue = <<>>
             /\ legacy.autoReconnect
                  => \E id \in DOMAIN legacy'.timers :
                       legacy'.timers[id].kind = "reconnect"]_vars

\* C10's case: the scheduler has just given up a command it had transmitted
\* six times.
C10_Witness ==
  /\ legacy.last = [op |-> "timer", kind |-> "process"]
  /\ GaveUp(legacy)
  /\ ~legacy.connected

(***************************************************************************)
(* The poll: a session whose user asks for the roster again, and whose     *)
(* server answers the command in flight whole or in parts, the parts in    *)
(* any order and any of them more than once.                               *)
(***************************************************************************)
MaxTotal == 3

\* The row a part of a roster carries: the one player, with a ping and a
\* place that tell the parts apart.
PartRow(index) ==
  Row(1, 10 * index, "guid-a", "OK", IF index % 2 = 1 THEN "Lobby" ELSE "")

\* The payloads of a roster sent in total parts, by packetIndex + 1: the
\* header line leads, a row follows in every later part; a roster in one
\* part is the header line and a row.
ResponseParts(total) ==
  IF total = 1 THEN <<(<<Header, PartRow(1)>>)>>
  ELSE [i \in 1..total |-> IF i = 1 THEN <<Header>> ELSE <<PartRow(i - 1)>>]

ReassemblyPackets ==
  UNION {{PartPacket(seq, total, index, ResponseParts(total)[index + 1]) :
            seq \in 0..MaxCmdSeq, index \in 0..(total - 1)} :
         total \in 1..MaxTotal}

\* The parts of one response agree on the number of parts.
Coherent(packet) ==
  packet.t = "CommandPacketPart"
    => \A i \in 1..Len(packetParts) :
         packetParts[i].sequence = packet.sequence
           => packetParts[i].totalPackets = packet.totalPackets

PollCommands == {"players"}

NextPoll ==
  \/ state = "CLOSED" /\ Connect
  \/ SocketConnect
  \/ \E packet \in {createPacket(ServerFrame(PacketTypes.Login, <<1>>))} :
        Answered(packet) /\ Receive(packet)
  \/ \E command \in PollCommands : SendCommand(command)
  \/ \E packet \in {WholePacket(PacketTypes.Command, seq, data) :
                      seq \in 0..MaxCmdSeq, data \in RosterDumps} :
        Solicited(packet) /\ Receive(packet)
  \/ \E packet \in ReassemblyPackets :
        Solicited(packet) /\ Coherent(packet) /\ Receive(packet)
  \/ \E id \in DOMAIN timers : TimerFire(id)
  \/ BoundedTick

SpecPoll == InitRoster /\ [][NextPoll]_vars

\* C11 (invariant I5): once the roster is ready, a roster dump adds no
\* player id to the roster.
C11_DumpAddsOnlyBeforeReady ==
  [][(ReceivedCommand(last') /\ ready)
       => DOMAIN players' \subseteq DOMAIN players]_vars

\* The payload of a response of total parts, as the server cut it up
RECURSIVE WholePayload(_, _)
WholePayload(total, upTo) ==
  IF upTo = 0 THEN <<>>
  ELSE WholePayload(total, upTo - 1) \o ResponseParts(total)[upTo]

\* The packetIndex values of the buffered parts of a sequence number
BufferedIndexes(seq) ==
  {packetParts[i].packetIndex :
     i \in {j \in 1..Len(packetParts) : packetParts[j].sequence = seq}}

\* The session after the payload of the whole response has been handled
Delivered(part) ==
  commandResponse(
    Base_handleCommandPacket(Begin, part),
    Some(WholePacket(PacketTypes.Command, part.sequence,
                     WholePayload(part.totalPackets, part.totalPackets))))

\* C12 (P3): a part that is already buffered is ignored; a part that leaves
\* the response incomplete is buffered and delivers nothing; the part that
\* completes the response delivers, once, the parts' payloads joined in the
\* order of their indexes, whatever order they arrived in, and a response of
\* one part delivers that part's payload.  A part frame is decoded into its
\* sequence number, total, index and payload.
C12_Reassembly ==
  [][(/\ last'.op = "receive"
      /\ last'.packet.t = "CommandPacketPart"
      /\ state = "CONNECTED")
       => LET part == last'.packet
              have == BufferedIndexes(part.sequence)
          IN  /\ createPacket(ServerFrame(PacketTypes.Command,
                     <<part.sequence, 0, part.totalPackets, part.packetIndex, 111, 107>>))
                   = PartPacket(part.sequence, part.totalPackets, part.packetIndex,
                                <<111, 107>>)
              /\ IF part.packetIndex \in have
                 THEN /\ ev' = <<>>
                      /\ UNCHANGED <<players, connectingPlayers, ready, commandQueue,
                                     packetParts, waitingForCommandResponse>>
                 ELSE IF have \cup {part.packetIndex} # 0..(part.totalPackets - 1)
                 THEN /\ ev' = <<>>
                      /\ packetParts' = Append(packetParts, part)
                      /\ UNCHANGED <<players, connectingPlayers, ready, commandQueue,
                                     waitingForCommandResponse>>
                 ELSE /\ players' = Delivered(part).players
                      /\ connectingPlayers' = Delivered(part).connectingPlayers
                      /\ ev' = Delivered(part).ev
                      /\ Cardinality({i \in 1..Len(ev') : ev'[i].name = "players"}) = 1
                      /\ ready'
                      /\ packetParts' = <<>>]_vars

\* C12's case: the header line, part 0 of MaxTotal, arrives last and
\* completes the roster; the row of the last part is the player's state.
C12_Witness ==
  /\ last.op = "receive"
  /\ last.packet.t = "CommandPacketPart"
  /\ last.packet.totalPackets = MaxTotal
  /\ last.packet.packetIndex = 0
  /\ Emitted("players")
  /\ 1 \in DOMAIN players
  /\ players[1].ping = 10 * (MaxTotal - 1)

\* The Command frames among the frames a step handed to the socket
CommandFrames(frames) ==
  SelectSeq(frames, LAMBDA f : f.t = "Packet" /\ f.type = PacketTypes.Command)

\* C13 (P5, I3): the Command frames of a step carry the successive values of
\* the sequence counter, which moves by one modulo 256 per allocation and
\* otherwise only back to 0; a session that is Connecting has the counter at
\* 0, so its first command is numbered 0; and no number is allocated while
\* the command in flight carries it.
C13_SequenceAllocation ==
  [][/\ \A i \in 1..Len(CommandFrames(out')) :
          CommandFrames(out')[i].sequence = (sequence + i - 1) % SequenceModulus
     /\ sequence' \in {sequence, (sequence + 1) % SequenceModulus, 0}
     /\ state' = "CONNECTING" => sequence' = 0
     /\ (sequence' # sequence /\ waitingForCommandResponse /\ IsSome(inFlightSeq)
           /\ last'.op = "timer")
          => inFlightSeq[1] # sequence]_vars

\* The frames of a step that carry a command (a heartbeat carries none)
CommandsSent(frames) ==
  SelectSeq(CommandFrames(frames), LAMBDA f : Len(f.data) > 0)

\* C14: a frame that carries the command at the head of the queue again,
\* the command not having been answered, is the frame of its first
\* transmission: the same payload under the same sequence number.
C14_ResendIdentity ==
  [][IsSome(firstSent)
       => \A i \in 1..Len(CommandsSent(out')) :
            CommandsSent(out')[i] = firstSent[1]]_vars

\* C15: a step transmits at most one command, and only while none awaits its
\* response; the command transmitted is the head of the queue, which stays
\* at the head while it awaits its response; and the queue changes only by
\* a command joining its tail, its head leaving, or its being emptied.  So
\* commands are first transmitted in the order they were enqueued.
C15_SingleSlotFifo ==
  [][/\ Len(CommandsSent(out')) <= 1
     /\ Len(CommandsSent(out')) = 1
          => /\ ~waitingForCommandResponse
             /\ waitingForCommandResponse'
             /\ Len(commandQueue) > 0
             /\ CommandsSent(out')[1].data = Text(commandQueue[1])
             /\ commandQueue' = commandQueue
     /\ \/ commandQueue' = commandQueue
        \/ \E command \in {"players"} \cup UserCommands :
              commandQueue' = Append(commandQueue, command)
        \/ Len(commandQueue) > 0 /\ commandQueue' = Tail(commandQueue)
        \/ commandQueue' = <<>>]_vars

\* C15's case: the user's command, enqueued after the roster poll, is
\* transmitted for the first time once the poll has been answered.
C15_Witness ==
  /\ last = [op |-> "timer", kind |-> "commandQueue"]
  /\ Len(CommandsSent(out)) = 1
  /\ CommandsSent(out)[1].data = Text("say -1 hello")
  /\ CommandsSent(out)[1].sequence = 1
  /\ commandQueue = <<"say -1 hello">>
  /\ waitingForCommandResponse

(***************************************************************************)
(* Reconnection: a session of either autoReconnect setting that its user   *)
(* may close, whose socket may fail, whose login may be refused and whose  *)
(* server may fall silent, followed for as long as it lasts.               *)
(***************************************************************************)
InitReconnect == \E reconnects \in BOOLEAN : Constructed(reconnects, WatchdogUpdateRate)

NextReconnect ==
  \/ state = "CLOSED" /\ Connect
  \/ \E abortReconnect \in CloseArguments : Close("user", abortReconnect)
  \/ SocketConnect
  \/ SocketError
  \/ \E packet \in {createPacket(ServerFrame(PacketTypes.Login, <<status>>)) :
                      status \in {1, 48}} :
        Answered(packet) /\ Receive(packet)
  \/ \E packet \in {WholePacket(PacketTypes.Command, seq, <<Header>>) :
                      seq \in 0..MaxCmdSeq} :
        Solicited(packet) /\ Receive(packet)
  \/ GoSilent
  \/ \E id \in DOMAIN timers : TimerFire(id)
  \/ WatchdogTick

SpecReconnect ==
  /\ InitReconnect
  /\ [][NextReconnect]_vars
  /\ WF_vars(WatchdogTick)
  /\ WF_vars(\E id \in DOMAIN timers : TimerFire(id))

\* The closes the session makes of its own accord, by their reason
OwnCloseReasons == {"Login timed out.", "Connection timed out.", "Socket error."}

C17_ResetOnReconnect ==
  [][(/\ state' = "CONNECTING"
      /\ state # "CONNECTING"
      /\ (aborted \/ \E i \in 1..Len(ev') : ev'[i].name = "disconnected"))
       => /\ sequence' = 0
          /\ packetParts' = <<>>
          /\ commandQueue' = <<>>
          /\ ~waitingForCommandResponse'
          /\ players' = EmptyMap
          /\ connectingPlayers' = EmptyMap
          /\ ~ready']_vars

\* C18: connect() on a Closed session returns true, makes it Connecting and
\* opens the one socket it has, sending nothing yet; on a session in any
\* other state it returns false, and no field of the session, no timer and
\* no socket changes, nothing is sent and nothing is emitted.
C18_ConnectContract ==
  [][last'.op = "connect"
       => IF state = "CLOSED"
          THEN /\ ret' = Some(TRUE)
               /\ state' = "CONNECTING"
               /\ socket = "null"
               /\ socket' = "created"
               /\ out' = <<>>
               /\ UNCHANGED <<timers, timeouts, sequence>>
          ELSE /\ ret' = Some(FALSE)
               /\ out' = <<>>
               /\ ev' = <<>>
               /\ UNCHANGED <<autoReconnect, sequence, lastCommandPacketSentAt,
                              lastCommandPacketReceivedAt, socket, state, timeouts,
                              ready, players, connectingPlayers, playerUpdateRate,
                              playerUpdateInterval, lastCommandSentAt,
                              commandQueueInterval, commandQueue, packetParts,
                              waitingForCommandResponse, seenSequences, timers>>]_vars

\* C18's case: connect() was called on a Connected session and returned
\* false.
C18_Witness ==
  /\ last = [op |-> "connect"]
  /\ ret = Some(FALSE)
  /\ state = "CONNECTED"
  /\ socket = "connected"
  /\ "heartbeat" \in DOMAIN timeouts

LoginDeadlinePending == "login" \in DOMAIN timeouts

\* C19: the login deadline is a timer of 5 s set when the login is sent and
\* held only by a Connecting session; it ends by a Login response being
\* received, by a close or by running, and when it runs it closes the
\* session for 'Login timed out.'; no other timer is a login deadline, so
\* none closes the session after the response; and a session whose login is
\* never answered does not keep its deadline pending for ever.
C19_LoginDeadline ==
  /\ [](LoginDeadlinePending => state = "CONNECTING")
  /\ [](\A id \in DOMAIN timers :
          timers[id].kind = "login"
            => /\ LoginDeadlinePending
               /\ timeouts["login"] = id
               /\ timers[id].period = LoginTimeoutMs)
  /\ [][/\ last'.op = "socketConnect" => (LoginDeadlinePending' /\ state' = "CONNECTING")
        /\ (last'.op = "receive" /\ last'.packet.t = "LoginPacket")
             => ~LoginDeadlinePending'
        /\ (LoginDeadlinePending /\ ~LoginDeadlinePending')
             => \/ last'.op = "receive" /\ last'.packet.t = "LoginPacket"
                \/ last'.op \in {"close", "socketError"}
                \/ /\ last' = [op |-> "timer", kind |-> "login"]
                   /\ ev' = <<[name |-> "disconnected",
                               args |-> <<"Login timed out.", ~autoReconnect>>]>>
        /\ last' = [op |-> "timer", kind |-> "login"]
             => (LoginDeadlinePending /\ state = "CONNECTING")]_vars
  /\ (silent /\ LoginDeadlinePending) ~> ~LoginDeadlinePending

\* C19's case: the deadline of an unanswered login has run and closed the
\* session, which is Connecting again for its autoReconnect.
C19_Witness ==
  /\ last = [op |-> "timer", kind |-> "login"]
  /\ silent
  /\ EmittedWith("disconnected", <<"Login timed out.", FALSE>>)
  /\ state = "CONNECTING"
  /\ ~LoginDeadlinePending

(***************************************************************************)
(* The early command: the user connects at once and may enqueue one        *)
(* command before the login is answered.  The server answers the login     *)
(* within MaxTicks quanta and answers the command in flight, with an empty *)
(* payload or with a roster, within the quantum in which it was sent.      *)
(* Time passes without bound and a due timer runs.                         *)
(***************************************************************************)
EarlySendCommand(command) ==
  state # "CONNECTED" /\ ticks = 0 /\ commandQueue = <<>> /\ SendCommand(command)

Prompt == IsSome(lastCommandPacketSentAt) /\ lastCommandPacketSentAt[1] = 0

NextEarlyCommand ==
  \/ state = "CLOSED" /\ ticks = 0 /\ Connect
  \/ \E command \in UserCommands : EarlySendCommand(command)
  \/ ticks = 0 /\ SocketConnect
  \/ \E packet \in {createPacket(ServerFrame(PacketTypes.Login, <<1>>))} :
        ticks < MaxTicks /\ Answered(packet) /\ Receive(packet)
  \/ \E packet \in {WholePacket(PacketTypes.Command, seq, data) :
                      seq \in 0..MaxCmdSeq, data \in {<<>>, <<Header>>}} :
        Prompt /\ Solicited(packet) /\ Receive(packet)
  \/ \E id \in DOMAIN timers : TimerFire(id)
  \/ Tick

SpecEarlyCommand ==
  /\ InitWatchdog
  /\ [][NextEarlyCommand]_vars
  /\ WF_vars(Tick)
  /\ WF_vars(\E id \in DOMAIN timers : TimerFire(id))

LoginSucceeded ==
  /\ last.op = "receive"
  /\ last.was = "CONNECTING"
  /\ last.packet = createPacket(ServerFrame(PacketTypes.Login, <<1>>))

PlayersTransmitted ==
  \E i \in 1..Len(CommandsSent(out)) : CommandsSent(out)[i].data = Text("players")

\* C20 (S1): a Connecting session that receives the Login frame of status
\* 0x01 is Connected and has emitted connected; and from there the scheduler
\* transmits a Command frame carrying 'players', unless the session leaves
\* Connected first.
C20_LoginSuccess ==
  /\ [](LoginSucceeded => (state = "CONNECTED" /\ Emitted("connected")))
  /\ LoginSucceeded ~> (PlayersTransmitted \/ state # "CONNECTED")

\* C21: a server-message frame received while the session is not Connected,
\* or while the roster is not ready, is answered by the acknowledgement
\* carrying its sequence number, and its content is not processed: the
\* roster and the connecting-player set stay as they are and no event is
\* emitted.
C21_AckRegardlessOfReadiness ==
  [][(ReceivedMessage(last') /\ (state # "CONNECTED" \/ ~ready))
       => /\ out' = <<Ack(last'.packet.sequence)>>
          /\ UNCHANGED <<players, connectingPlayers>>
          /\ ev' = <<>>]_vars

(***************************************************************************)
(* The codec alone: createPacket applied to a datagram, which is a frame   *)
(* as toBuffer builds it, a frame of a type the protocol does not have, a  *)
(* frame with one byte changed, or a buffer cut short.                     *)
(***************************************************************************)
MaxPayload == 2

PayloadBytes == {0, 65, 255}

Payloads == UNION {[1..n -> PayloadBytes] : n \in 0..MaxPayload}

\* An encoding that leaves the sequence number out
Packet_toBuffer_NoSequence(packet) == ServerFrame(packet.type, packet.data)

\* Packet.toBuffer (packet.ts 52-63); a null data adds nothing
Packet_toBuffer(packet) == ServerFrame(packet.type, <<packet.sequence>> \o packet.data)

\* LoginPacket.create(type, data).toBuffer() (packet.ts 82-95)
LoginPacket_toBuffer(data) == ServerFrame(PacketTypes.Login, data)

\* The packets the codec is given to encode: Packet.create(type, data,
\* sequence) for every sequence number, and LoginPacket.create(0, data).
CreatedPackets ==
  {PacketCreate(type, payload, seq) :
     type \in {PacketTypes.Command, PacketTypes.Message},
     payload \in Payloads, seq \in 0..(SequenceModulus - 1)}

CreatedLoginPackets == {[t |-> "LoginPacket", data |-> password] : password \in Payloads}

UnknownKindFrames ==
  {ServerFrame(type, <<seq>> \o payload) :
     type \in {3, 255}, seq \in {0, 1}, payload \in Payloads}

\* The frames a byte of which is changed in transit: the answer to a login,
\* the acknowledgement of a heartbeat, a command response and a message.
TransitFrames ==
  {LoginPacket_toBuffer(<<1>>),
   Packet_toBuffer(PacketCreate(PacketTypes.Command, None, 0)),
   Packet_toBuffer(PacketCreate(PacketTypes.Command, <<65, 65>>, 1)),
   Packet_toBuffer(PacketCreate(PacketTypes.Message, <<65>>, 2))}

Corrupted(frame) ==
  {[frame EXCEPT ![p] = v] : p \in 1..Len(frame), v \in 0..255} \ {frame}

ShortBuffers ==
  {SubSeq(frame, 1, n) : frame \in TransitFrames, n \in 0..7}

Datagrams ==
  UnknownKindFrames \cup ShortBuffers
    \cup UNION {Corrupted(frame) : frame \in TransitFrames}

\* createPacket(msg), called on its own on one datagram; of is the packet msg
\* is the encoding of, if it is one.
CreatePacket(msg, of) ==
  /\ last.op = "init"
  /\ ret' = Some(createPacket(msg))
  /\ last' = [op |-> "createPacket", msg |-> msg, of |-> of]
  /\ UNCHANGED << autoReconnect, sequence, lastCommandPacketSentAt,
                  lastCommandPacketReceivedAt, socket, state, timeouts, ready,
                  players, connectingPlayers, playerUpdateRate,
                  playerUpdateInterval, lastCommandSentAt, commandQueueInterval,
                  commandQueue, packetParts, waitingForCommandResponse,
                  seenSequences, timers, ticks, silent, out, ev, inFlightSeq,
                  joined, aborted, firstSent, legacy >>

NextCodec ==
  \/ \E msg \in Datagrams : CreatePacket(msg, None)
  \/ \E packet \in CreatedPackets : CreatePacket(Packet_toBuffer(packet), Some(packet))
  \/ \E packet \in CreatedLoginPackets :
        CreatePacket(LoginPacket_toBuffer(packet.data), Some(packet))

SpecCodec == Init /\ [][NextCodec]_vars

Decoded == last.op = "createPacket"

\* The checksum field of msg is the CRC-32 of msg from the separator on,
\* least significant byte first.
ChecksumMatches(msg) == SubSeq(msg, 3, 6) = reverse(crc32(subarray(msg, 6)))

\* C22: createPacket returns a PacketError for every buffer shorter than 8
\* bytes, every buffer that does not begin with 'BE', and every buffer whose
\* four checksum bytes differ from the CRC-32 of the bytes from offset 6 on.
C22_DecodeRejection ==
  (/\ Decoded
   /\ \/ Len(last.msg) < 8
      \/ SubSeq(last.msg, 1, 2) # <<66, 69>>
      \/ ~ChecksumMatches(last.msg))
    => ret[1].t = "PacketError"

\* C23: a frame of at least 8 bytes that begins with 'BE' and carries the
\* checksum of its body, and whose type byte is not 0, 1 or 2, makes
\* createPacket return a PacketError, which no handler is given.
C23_UnknownKind ==
  (/\ Decoded
   /\ Len(last.msg) >= 8
   /\ SubSeq(last.msg, 1, 2) = <<66, 69>>
   /\ ChecksumMatches(last.msg)
   /\ last.msg[8] \notin {PacketTypes.Login, PacketTypes.Command, PacketTypes.Message})
    => ret[1].t = "PacketError"

\* The three forms of encoding the round trip is stated for.
RoundTripForm(packet) ==
  \/ packet.t = "LoginPacket"
  \/ packet.t = "Packet" /\ packet.type = PacketTypes.Command
  \/ packet.t = "Packet" /\ packet.type = PacketTypes.Message /\ packet.data = None

HasPartHeader(packet) ==
  packet.t = "Packet" /\ Len(packet.data) > 0 /\ packet.data[1] = 0

Processed(kind) ==
  /\ ReceivedMessage(last')
  /\ state = "CONNECTED"
  /\ ready
  /\ ~hasSeenSequenceId(Cur, last'.packet.sequence)
  /\ last'.packet.data[1].k = kind

\* C25: a 'Verified GUID' notification for an id the roster holds as a
\* verified player of the same guid leaves no connecting-player entry of
\* that id and emits no playerConnected event.
C25_NoDuplicateJoin ==
  [][(/\ Processed("playerGuidVerified")
      /\ last'.packet.data[1].id \in DOMAIN players
      /\ players[last'.packet.data[1].id].verified
      /\ players[last'.packet.data[1].id].guid = last'.packet.data[1].guid)
       => /\ last'.packet.data[1].id \notin DOMAIN connectingPlayers'
          /\ \A i \in 1..Len(ev') : ev'[i].name # "playerConnected"]_vars

\* C26: once a 'disconnected' or 'kicked' notification of a player id is
\* processed, the id is in neither the roster nor the connecting-player set;
\* a roster player leaves with exactly one playerDisconnected event carrying
\* the player and the reason, and an id that was only connecting is dropped
\* with no event.
C26_LeaveHandling ==
  [][(Processed("playerDisconnected") \/ Processed("playerKicked"))
       => LET m == last'.packet.data[1]
              reason == IF m.k = "playerKicked" THEN m.reason ELSE "disconnected"
          IN  /\ m.id \notin DOMAIN players'
              /\ m.id \notin DOMAIN connectingPlayers'
              /\ m.id \in DOMAIN players
                   => ev' = <<[name |-> "playerDisconnected",
                               args |-> <<players[m.id], reason>>]>>
              /\ (m.id \notin DOMAIN players /\ m.id \in DOMAIN connectingPlayers)
                   => ev' = <<>>]_vars

\* The step processed a roster dump of one row: the whole response was
\* handed to _playerList, which ends by emitting 'players'.
ProcessedDumpRow ==
  /\ ReceivedCommand(last')
  /\ last'.packet.t = "Packet"
  /\ Len(last'.packet.data) = 2
  /\ last'.packet.data[2].k = "row"
  /\ \E i \in 1..Len(ev') : ev'[i].name = "players"

UpdateEvents(events) == SelectSeq(events, LAMBDA e : e.name = "playerUpdated")

\* C27: a dump row of an id the roster holds gives the player the row's
\* ping, verified and lobby, and playerUpdated(player, changes) is emitted,
\* once, exactly when one of the three changed, with changes = <<ping
\* changed, verified changed, lobby changed>>.
C27_DumpUpdate ==
  [][(ProcessedDumpRow /\ last'.packet.data[2].id \in DOMAIN players)
       => LET row == last'.packet.data[2]
              old == players[row.id]
              new == [old EXCEPT !.ping = row.ping,
                                 !.verified = (row.verifiedStr = "OK"),
                                 !.lobby = (row.lobbyStr = "Lobby")]
              changes == <<old.ping # new.ping, old.verified # new.verified,
                           old.lobby # new.lobby>>
          IN  /\ row.id \in DOMAIN players'
              /\ players'[row.id] = new
              /\ UpdateEvents(ev') =
                   IF new # old
                   THEN <<[name |-> "playerUpdated", args |-> <<new, changes>>]>>
                   ELSE <<>>]_vars

(***************************************************************************)
(* The gate: the polling session, which also receives answers that are not *)
(* a roster and, until its roster is ready, hears server messages of every *)
(* kind the program tells apart.                                           *)
(***************************************************************************)
GateMessages ==
  {[k |-> "playerConnected", id |-> 1, ip |-> "10.0.0.1", name |-> "ann"],
   [k |-> "playerGuidVerified", id |-> 1, guid |-> "guid-a"],
   [k |-> "playerDisconnected", id |-> 1],
   [k |-> "playerKicked", id |-> 1, reason |-> "Ban"],
   [k |-> "beLog", id |-> 1],
   [k |-> "playerMessage", id |-> 1],
   [k |-> "adminMessage", id |-> 0],
   [k |-> "unknown"]}

NextGate ==
  \/ NextPoll
  \/ \E packet \in {WholePacket(PacketTypes.Message, seq, <<m>>) :
                      seq \in 0..MaxMsgSeq, m \in GateMessages} :
        ~ready /\ Receive(packet)
  \/ \E packet \in {WholePacket(PacketTypes.Command, seq, data) :
                      seq \in 0..MaxCmdSeq,
                      data \in {<<>>, Text("ok"), <<[k |-> "Missions on server:"]>>}} :
        Solicited(packet) /\ Receive(packet)

SpecGate == InitRoster /\ [][NextGate]_vars

\* The step handed a whole answer that begins with the roster's header line
\* to the scheduler: a frame that is the answer, or the part that completes
\* one.
CompletedRoster ==
  /\ ReceivedCommand(last')
  /\ state = "CONNECTED"
  /\ IF last'.packet.t = "Packet"
     THEN startsWith(last'.packet.data, "Players on server:")
     ELSE /\ BufferedIndexes(last'.packet.sequence) \cup {last'.packet.packetIndex}
               = 0..(last'.packet.totalPackets - 1)
          /\ startsWith(WholePayload(last'.packet.totalPackets,
                                     last'.packet.totalPackets),
                        "Players on server:")

\* C28: while the roster is not ready a server message leaves the roster
\* and the connecting-player set as they are and emits no event; and the
\* roster becomes ready only in a step that processes a complete 'Players on
\* server:' response.
C28_ReadyGate ==
  [][/\ (ReceivedMessage(last') /\ ~ready)
          => (UNCHANGED <<players, connectingPlayers, ready>> /\ ev' = <<>>)
     /\ (~ready /\ ready') => CompletedRoster]_vars

\* C28's case: a Connected session whose roster is not ready yet has just
\* acknowledged a 'connected' notification and holds no connecting player.
C28_Witness ==
  /\ ReceivedMessage(last)
  /\ last.was = "CONNECTED"
  /\ last.packet.data[1].k = "playerConnected"
  /\ out = <<Ack(last.packet.sequence)>>
  /\ ~ready
  /\ connectingPlayers = EmptyMap

\* The step put a new Player object in the roster under the id: a
\* verification of a connecting player.
Replaced(id) ==
  /\ Processed("playerGuidVerified")
  /\ last'.packet.data[1].id = id
  /\ id \in DOMAIN connectingPlayers

\* C29: a player of the roster that is verified stays verified, and keeps
\* its guid, for as long as it is in the roster: no server message and no
\* roster dump turns verified back to false.
C29_VerifiedMonotone ==
  [][\A id \in DOMAIN players \cap DOMAIN players' :
       ~Replaced(id)
         => /\ players[id].verified => players'[id].verified
            /\ players'[id].guid = players[id].guid]_vars

\* C30: the command queue, whose head is the command in flight, holds at
\* most one 'players' poll of the program's own (the user enqueues nothing
\* in this specification).
C30_PollCoalescing ==
  Cardinality({i \in 1..Len(commandQueue) : commandQueue[i] = "players"}) <= 1

(***************************************************************************)
(* The parts at odds: the polling session, whose server may also send a    *)
(* part that states another number of parts than the parts it sent before  *)
(* for the same response.                                                  *)
(***************************************************************************)
NextParts ==
  \/ NextPoll
  \/ \E packet \in ReassemblyPackets :
        Solicited(packet) /\ ~Coherent(packet) /\ Receive(packet)

SpecParts == InitRoster /\ [][NextParts]_vars

\* C31: a part whose total differs from the total of the parts buffered for
\* its sequence number is ignored and the buffered parts of that sequence
\* number are dropped; nothing is delivered.
C31_InconsistentTotals ==
  [][(/\ last'.op = "receive"
      /\ last'.packet.t = "CommandPacketPart"
      /\ state = "CONNECTED"
      /\ \E i \in 1..Len(packetParts) :
            /\ packetParts[i].sequence = last'.packet.sequence
            /\ packetParts[i].totalPackets # last'.packet.totalPackets)
       => /\ \A i \in 1..Len(packetParts') :
               packetParts'[i].sequence # last'.packet.sequence
          /\ ev' = <<>>
          /\ UNCHANGED <<players, connectingPlayers, ready, commandQueue,
                         waitingForCommandResponse>>]_vars

\* The heartbeats among the frames a step handed to the socket: the Command
\* frames that carry no command
Heartbeats(frames) ==
  SelectSeq(CommandFrames(frames), LAMBDA f : Len(f.data) = 0)

\* C32: a heartbeat is sent only by a Connected session whose last Command
\* frame left more than 20 s before, one heartbeat per step, under the next
\* sequence number; and the heartbeat timer of a Connected session that has
\* been idle for more than 20 s and stays Connected sends one.
C32_Heartbeat ==
  [][/\ Heartbeats(out') # <<>>
          => /\ state = "CONNECTED"
             /\ IsSome(lastCommandPacketSentAt)
             /\ lastCommandPacketSentAt[1] >= HeartbeatIdleMs
             /\ Len(Heartbeats(out')) = 1
             /\ Heartbeats(out')[1].sequence = sequence
     /\ (/\ last'.op = "timer"
         /\ last'.kind = "heartbeat"
         /\ state = "CONNECTED"
         /\ state' = "CONNECTED"
         /\ IsSome(lastCommandPacketSentAt)
         /\ lastCommandPacketSentAt[1] > HeartbeatIdleMs)
          => Len(Heartbeats(out')) = 1]_vars

(***************************************************************************)
(* The rows: the polling session, whose server lists a player in every     *)
(* form the pattern of a roster row accepts (a GUID or "-", followed by    *)
(* "(OK)", "(?)" or no mark) and announces connections and verified GUIDs, *)
(* each announcement once.                                                 *)
(***************************************************************************)
RowForms ==
  {Row(id, 10, guid, mark, "") :
     id \in PlayerIds, guid \in {"-", "guid-a"}, mark \in {"OK", "?", ""}}

RowMessages ==
  {[k |-> "playerConnected", id |-> 1, ip |-> "10.0.0.1", name |-> "ann"],
   [k |-> "playerGuidVerified", id |-> 1, guid |-> "guid-a"]}

NextRows ==
  \/ NextPoll
  \/ \E packet \in {WholePacket(PacketTypes.Command, seq, <<Header, row>>) :
                      seq \in 0..MaxCmdSeq, row \in RowForms} :
        Solicited(packet) /\ Receive(packet)
  \/ \E packet \in {WholePacket(PacketTypes.Message, seq, <<m>>) :
                      seq \in 0..MaxMsgSeq, m \in RowMessages} :
        packet.sequence = Len(seenSequences) /\ Receive(packet)

SpecRows == InitRoster /\ [][NextRows]_vars

\* C33 (invariant I2): every player of the roster that is verified has a
\* GUID, which is never "-".
C33_VerifiedHasGuid ==
  \A id \in DOMAIN players : players[id].verified => players[id].guid \in Guids

(***************************************************************************)
(* The options: the polling session, constructed with or without the       *)
(* option playerUpdateInterval.                                            *)
(***************************************************************************)
\* options.playerUpdateInterval ?? 5000 (index.ts 206)
Arcon_playerUpdateRate(option) ==
  IF IsSome(option) THEN option[1] ELSE DefaultPlayerUpdateRate

\* The option is omitted, or a number of milliseconds below, at, between and
\* above the limits the documentation of the option gives.
UpdateIntervalOptions ==
  {None} \cup {Some(ms) : ms \in {Quantum, 2 * Quantum, 80 * Quantum, 81 * Quantum}}

InitOptions ==
  \E option \in UpdateIntervalOptions :
     Constructed(TRUE, Arcon_playerUpdateRate(option))

SpecOptions == InitOptions /\ [][NextPoll]_vars

\* C34: the period of the interval that polls the roster is at least 1000 ms
\* and at most 40000 ms, whatever the option playerUpdateInterval was.
C34_OptionBounds ==
  \A id \in DOMAIN timers :
     timers[id].kind = "playerUpdate"
       => timers[id].period >= 1000 /\ timers[id].period <= 40000

\* C35: a command that was transmitted and that the server, fallen silent,
\* never answers does not stay at the head of the queue of a Connected
\* session for ever: it leaves the queue or the session leaves the Connected
\* state.
C35_NoEndlessRetry ==
  (silent /\ state = "CONNECTED" /\ IsSome(firstSent))
    ~> (state # "CONNECTED" \/ ~IsSome(firstSent))

\* C36: a datagram that a session receives and that leaves it Connected
\* takes a command from the queue only if the command at the head was
\* transmitted.
C36_NoCommandLoss ==
  [][(/\ last'.op = "receive"
      /\ state = "CONNECTED"
      /\ state' = "CONNECTED"
      /\ Len(commandQueue') < Len(commandQueue))
       => IsSome(firstSent)]_vars

\* C37: a step hands a Command frame to the socket, or allocates a sequence
\* number, only in a session that is Connected.
C37_CommandsOnlyConnected ==
  [][(\/ CommandFrames(out') # <<>>
      \/ sequence' = (sequence + 1) % SequenceModulus)
       => state = "CONNECTED"]_vars

(***************************************************************************)
(* The leaver: the polling session, whose server announces, at any moment  *)
(* and as its only messages, that player 1 disconnected.                   *)
(***************************************************************************)
LeaveMessages == {[k |-> "playerDisconnected", id |-> 1]}

NextLeave ==
  \/ NextPoll
  \/ \E packet \in {WholePacket(PacketTypes.Message, seq, <<m>>) :
                      seq \in 0..MaxMsgSeq, m \in LeaveMessages} :
        Receive(packet)

SpecLeave == InitRoster /\ [][NextLeave]_vars

\* The roster dump data has a row for player id.
Listed(id, data) ==
  \E i \in 1..Len(data) : data[i].k = "row" /\ data[i].id = id

\* C38: in a session that acknowledged the notification that player 1
\* disconnected (the only message its server sends), player 1 is not in the
\* roster once a roster dump that does not list the player is processed.
C38_RosterConvergence ==
  [][(/\ last'.op = "receive"
      /\ state = "CONNECTED"
      /\ seenSequences # <<>>
      /\ last'.packet.t = "Packet"
      /\ last'.packet.type = PacketTypes.Command
      /\ last'.packet.data # <<>>
      /\ last'.packet.data[1] = Header
      /\ ~Listed(1, last'.packet.data))
       => 1 \notin DOMAIN players']_vars

\* C39: a Login frame that a Connected session receives emits nothing,
\* starts no timer and enqueues no command; and there is never more than one
\* heartbeat timer, one command-queue timer and one roster-poll timer.
C39_ConnectedOnce ==
  [][/\ (last'.op = "receive" /\ last'.packet.t = "LoginPacket" /\ state = "CONNECTED")
          => (ev' = <<>> /\ DOMAIN timers' \subseteq DOMAIN timers
                /\ commandQueue' = commandQueue)
     /\ \A kind \in {"heartbeat", "commandQueue", "playerUpdate"} :
          Cardinality({id \in DOMAIN timers' : timers'[id].kind = kind}) <= 1]_vars

(***************************************************************************)
(* The wrap-around: a session whose server, once the roster is ready,      *)
(* sends admin messages numbered consecutively modulo 256, each one once   *)
(* or again while it is the latest.                                        *)
(***************************************************************************)
\* The sequence number of the server's next new message, after the messages
\* the session recorded
NextMessageSequence ==
  IF seenSequences = <<>> THEN 0
  ELSE (seenSequences[Len(seenSequences)] + 1) % SequenceModulus

WrapMessage(seq) ==
  WholePacket(PacketTypes.Message, seq, <<[k |-> "adminMessage", id |-> 0]>>)

NextWrap ==
  \/ state = "CLOSED" /\ Connect
  \/ SocketConnect
  \/ \E packet \in {createPacket(ServerFrame(PacketTypes.Login, <<1>>))} :
        Answered(packet) /\ Receive(packet)
  \/ \E packet \in {WholePacket(PacketTypes.Command, seq, <<Header>>) :
                      seq \in 0..MaxCmdSeq} :
        Solicited(packet) /\ Receive(packet)
  \/ /\ ready
     /\ socket = "connected"
     /\ ~silent
     /\ Becomes(handleMessage(Begin, WrapMessage(NextMessageSequence)))
     /\ last' = [op |-> "receive", packet |-> WrapMessage(NextMessageSequence),
                 was |-> state]
     /\ Untouched
  \/ /\ ready
     /\ seenSequences # <<>>
     /\ socket = "connected"
     /\ ~silent
     /\ Becomes(handleMessage(Begin, WrapMessage(seenSequences[Len(seenSequences)])))
     /\ last' = [op |-> "receive",
                 packet |-> WrapMessage(seenSequences[Len(seenSequences)]),
                 was |-> state]
     /\ Untouched
  \/ \E id \in DOMAIN timers : TimerFire(id)
  \/ BoundedTick

SpecWrap == InitRoster /\ [][NextWrap]_vars

\* C40: once the session has recorded 256 messages, the server's next new
\* message, whose sequence number is that of the message 256 messages
\* earlier, is processed: its event is emitted and its number recorded.
C40_DedupAfterWrap ==
  [][(/\ last'.op = "receive"
      /\ last'.packet.t = "Packet"
      /\ last'.packet.type = PacketTypes.Message
      /\ state = "CONNECTED"
      /\ ready
      /\ Len(seenSequences) = SeenWindow
      /\ last'.packet.sequence = NextMessageSequence)
       => /\ \E i \in 1..Len(ev') : ev'[i].name = "adminMessage"
          /\ seenSequences'[Len(seenSequences')] = last'.packet.sequence]_vars

====
